---- MODULE Spec2Model ----
(***************************************************************************)
(* BYOM coordinate transforms (src/src/lib/transforms.js): the 2-point     *)
(* similarity fit, the N-point affine fit, the forward and inverse         *)
(* evaluators and the selector calculateTransform; and the map viewer      *)
(* around them (MapViewer.svelte): the stored reference points, the cached *)
(* geoTransform, loadMapData with its awaits, the GPS callback and render  *)
(* (SpecViewer).                                                           *)
(*                                                                         *)
(* Arithmetic.  A JavaScript Number is modelled as an exact value          *)
(*     n / (d * 10^x)      (k = "fin", d > 0, in lowest terms),            *)
(* or as one of the IEEE specials NaN ("nan") and +/-Infinity ("inf", the  *)
(* sign in n).  Finite results are exact here, so a law that holds holds   *)
(* of the formulas over the reals.  The decimal exponent x lets a value as *)
(* small as the 1e-10 tolerance of the code be written with 32-bit         *)
(* integers.  Rounding is modelled where the code compares a rounded       *)
(* result with that tolerance on values of large magnitude: the            *)
(* determinant of the affine fit on the pixels of a large image (the       *)
(* integer-valued doubles below, computeAffineTransformRounded, SpecLarge).*)
(*                                                                         *)
(* Angles.  Math.atan2, Math.cos and Math.sin are modelled on the angles   *)
(*     q * pi/2 + m * theta,     theta = atan2(3, 4),                      *)
(* where they are exact: the directions of the axes and of the 3-4-5       *)
(* triangle.  Math.sqrt is exact on the squares these directions give.     *)
(***************************************************************************)
EXTENDS Integers, Sequences, FiniteSets, TLC

\* ------------------------------------------------------------ integers

Abs(i) == IF i < 0 THEN -i ELSE i

Min(i, j) == IF i <= j THEN i ELSE j

Max(i, j) == IF i >= j THEN i ELSE j

Sign(i) == IF i < 0 THEN -1 ELSE IF i > 0 THEN 1 ELSE 0

RECURSIVE Gcd(_, _)
Gcd(i, j) == IF j = 0 THEN i ELSE Gcd(j, i % j)

RECURSIVE Pow(_, _)
Pow(b, k) == IF k <= 0 THEN 1 ELSE b * Pow(b, k - 1)

\* The exponent of the prime p in i (i > 0).
RECURSIVE Val(_, _)
Val(i, p) == IF i % p = 0 THEN 1 + Val(i \div p, p) ELSE 0

RECURSIVE ISqrtFrom(_, _)
ISqrtFrom(i, r) == IF r * r >= i THEN r ELSE ISqrtFrom(i, r + 1)

ISqrt(i) == ISqrtFrom(i, 0)

IsSquare(i) == ISqrt(i) * ISqrt(i) = i

\* ------------------------------------------------------------- numbers

NaN == [k |-> "nan", n |-> 0, d |-> 1, x |-> 0]

PosInf == [k |-> "inf", n |-> 1, d |-> 1, x |-> 0]

NegInf == [k |-> "inf", n |-> -1, d |-> 1, x |-> 0]

Num(i) == [k |-> "fin", n |-> i, d |-> 1, x |-> 0]

\* n / (d * 10^x) in canonical form: lowest terms, and 10 does not divide d.
\* Canon cancels 2^p2 and 5^p5 between n and 10^x.
Canon(n, d, x, p2, p5) ==
  [k |-> "fin",
   n |-> n \div (Pow(2, p2) * Pow(5, p5)),
   d |-> d * Pow(2, Max(p5 - p2, 0)) * Pow(5, Max(p2 - p5, 0)),
   x |-> x - Max(p2, p5)]

Cancel(n, d, x) ==
  Canon(n, d, x, Min(Val(Abs(n), 2), x), Min(Val(Abs(n), 5), x))

\* The factors of 10 of d move to the exponent.
Tens(n, d, t, x) == Cancel(n, d \div Pow(10, t), x + t)

Lowest(n, d, g, x) ==
  Tens(n \div g, d \div g, Min(Val(d \div g, 2), Val(d \div g, 5)), x)

Norm(n, d, x) ==
  IF n = 0 THEN Num(0)
  ELSE IF d = 1 /\ x = 0 THEN Num(n)
  ELSE IF x < 0 THEN Lowest(n * Pow(10, -x), d, Gcd(Abs(n * Pow(10, -x)), d), 0)
  ELSE Lowest(n, d, Gcd(Abs(n), d), x)

Rat(n, d) == Norm(n, d, 0)

Dec(n, x) == Norm(n, 1, x)

IsFinite(a) == a.k = "fin"

IsZero(a) == a.k = "fin" /\ a.n = 0

Inf(s) == IF s < 0 THEN NegInf ELSE PosInf

Neg(a) == IF a.k = "nan" THEN NaN ELSE [a EXCEPT !.n = -a.n]

\* a + b over the least common denominator, g the gcd of the denominators.
AddOver(a, b, x, g) ==
  Norm(a.n * (b.d \div g) * Pow(10, x - a.x) + b.n * (a.d \div g) * Pow(10, x - b.x),
       (a.d \div g) * b.d, x)

Add(a, b) ==
  IF a.k = "nan" \/ b.k = "nan" THEN NaN
  ELSE IF a.k = "inf" THEN (IF b.k = "inf" /\ b.n # a.n THEN NaN ELSE a)
  ELSE IF b.k = "inf" THEN b
  ELSE IF a.n = 0 THEN b
  ELSE IF b.n = 0 THEN a
  ELSE IF a.d = 1 /\ b.d = 1 /\ a.x = 0 /\ b.x = 0 THEN Num(a.n + b.n)
  ELSE AddOver(a, b, Max(a.x, b.x), Gcd(a.d, b.d))

Sub(a, b) == Add(a, Neg(b))

Mul(a, b) ==
  IF a.k = "nan" \/ b.k = "nan" THEN NaN
  ELSE IF a.k = "inf" \/ b.k = "inf"
       THEN (IF a.n = 0 \/ b.n = 0 THEN NaN ELSE Inf(Sign(a.n) * Sign(b.n)))
  ELSE IF a.d = 1 /\ b.d = 1 /\ a.x = 0 /\ b.x = 0 THEN Num(a.n * b.n)
  ELSE Norm(a.n * b.n, a.d * b.d, a.x + b.x)

\* IEEE division: x/0 is an infinity (NaN for 0/0), never an exception.  A
\* zero is taken as +0, as every zero divisor of the code is (a Math.sqrt, or
\* a difference of equal values).
Div(a, b) ==
  IF a.k = "nan" \/ b.k = "nan" THEN NaN
  ELSE IF a.k = "inf"
       THEN (IF b.k = "inf" THEN NaN
             ELSE Inf(a.n * (IF b.n < 0 THEN -1 ELSE 1)))
  ELSE IF b.k = "inf" THEN Num(0)
  ELSE IF b.n = 0 THEN (IF a.n = 0 THEN NaN ELSE Inf(a.n))
  ELSE Norm(Sign(b.n) * a.n * b.d, a.d * Abs(b.n), a.x - b.x)

\* Math.abs(a) < 10^(-e), false for NaN as every comparison with NaN is.
\* For a finite a: |n| * 10^e < d * 10^x, computed without leaving 32 bits.
AbsLess(a, e) ==
  /\ a.k = "fin"
  /\ \/ a.n = 0
     \/ IF a.x >= e
        THEN Abs(a.n) < a.d * Pow(10, a.x - e)
        ELSE LET h == Min(e - a.x, 5)
             IN Abs(a.n) <= ((a.d - 1) \div Pow(10, h)) \div Pow(10, e - a.x - h)

\* Math.sqrt, on the values where it is exact.
Sqrt(a) ==
  IF a.k = "nan" THEN NaN
  ELSE IF a.k = "inf" THEN (IF a.n > 0 THEN PosInf ELSE NaN)
  ELSE IF a.n < 0 THEN NaN
  ELSE IF a.x % 2 = 0 THEN Norm(ISqrt(a.n), ISqrt(a.d), a.x \div 2)
  ELSE IF IsSquare(10 * a.n) THEN Norm(ISqrt(10 * a.n), ISqrt(a.d), (a.x + 1) \div 2)
  ELSE Norm(ISqrt(a.n), ISqrt(10 * a.d), (a.x - 1) \div 2)

HasExactSqrt(a) ==
  /\ a.k = "fin"
  /\ a.n >= 0
  /\ IF a.x % 2 = 0 THEN IsSquare(a.n) /\ IsSquare(a.d)
     ELSE \/ IsSquare(10 * a.n) /\ IsSquare(a.d)
          \/ IsSquare(a.n) /\ IsSquare(10 * a.d)

\* ------------------------------------------------- integer-valued doubles
\* A Number holds 53 significant bits.  The pixel sums of the affine fit
\* and their products are integers when the pixels are, and for a large
\* image they need more than 53 bits, so the code's operations round.  An
\* integer of any size is here a sign with a magnitude in limbs of 13 bits,
\* lowest limb first, and each operation is the exact one followed by the
\* IEEE rounding to the nearest value of 53 bits, ties to the even one.

Limb == 2^13

RECURSIVE NatOf(_)
NatOf(i) == IF i = 0 THEN <<>> ELSE <<i % Limb>> \o NatOf(i \div Limb)

RECURSIVE Trim(_)
Trim(a) ==
  IF a = <<>> THEN a
  ELSE IF a[Len(a)] = 0 THEN Trim(SubSeq(a, 1, Len(a) - 1))
  ELSE a

At(a, i) == IF i <= Len(a) THEN a[i] ELSE 0

RECURSIVE NatAddFrom(_, _, _, _)
NatAddFrom(a, b, i, carry) ==
  IF i > Max(Len(a), Len(b))
  THEN (IF carry = 0 THEN <<>> ELSE <<carry>>)
  ELSE <<(At(a, i) + At(b, i) + carry) % Limb>>
         \o NatAddFrom(a, b, i + 1, (At(a, i) + At(b, i) + carry) \div Limb)

NatAdd(a, b) == NatAddFrom(a, b, 1, 0)

\* a - b for a >= b.
RECURSIVE NatSubFrom(_, _, _, _)
NatSubFrom(a, b, i, borrow) ==
  IF i > Len(a) THEN <<>>
  ELSE <<(At(a, i) - At(b, i) - borrow) % Limb>>
         \o NatSubFrom(a, b, i + 1,
                       IF At(a, i) - At(b, i) - borrow < 0 THEN 1 ELSE 0)

NatSub(a, b) == Trim(NatSubFrom(a, b, 1, 0))

RECURSIVE NatLessAt(_, _, _)
NatLessAt(a, b, i) ==
  IF i = 0 THEN FALSE
  ELSE IF a[i] # b[i] THEN a[i] < b[i]
  ELSE NatLessAt(a, b, i - 1)

NatLess(a, b) ==
  IF Len(a) # Len(b) THEN Len(a) < Len(b) ELSE NatLessAt(a, b, Len(a))

\* a * k for one limb k.
RECURSIVE NatTimes(_, _, _, _)
NatTimes(a, k, i, carry) ==
  IF i > Len(a)
  THEN (IF carry = 0 THEN <<>> ELSE <<carry>>)
  ELSE <<(a[i] * k + carry) % Limb>>
         \o NatTimes(a, k, i + 1, (a[i] * k + carry) \div Limb)

\* a * Limb^q
NatShift(a, q) == IF a = <<>> THEN a ELSE [j \in 1..q |-> 0] \o a

RECURSIVE NatMulFrom(_, _, _)
NatMulFrom(a, b, i) ==
  IF i > Len(b) THEN <<>>
  ELSE NatAdd(NatShift(NatTimes(a, b[i], 1, 0), i - 1), NatMulFrom(a, b, i + 1))

NatMul(a, b) == Trim(NatMulFrom(a, b, 1))

RECURSIVE Bits(_)
Bits(k) == IF k = 0 THEN 0 ELSE 1 + Bits(k \div 2)

BitLen(a) == IF a = <<>> THEN 0 ELSE 13 * (Len(a) - 1) + Bits(a[Len(a)])

\* Bit i of a, bit 0 the lowest.
NatBit(a, i) == (At(a, i \div 13 + 1) \div 2^(i % 13)) % 2

\* The limb made of the 13 bits of a from bit i on.
RECURSIVE LimbFrom(_, _, _)
LimbFrom(a, i, t) ==
  IF t = 13 THEN 0 ELSE NatBit(a, i + t) * 2^t + LimbFrom(a, i, t + 1)

\* a with its s lowest bits dropped, and a * 2^s.
NatHigh(a, s) ==
  Trim([j \in 1..((BitLen(a) - s) \div 13 + 1) |-> LimbFrom(a, s + 13 * (j - 1), 0)])

NatShiftLeft(a, s) == NatShift(Trim(NatTimes(a, 2^(s % 13), 1, 0)), s \div 13)

\* Ties to even: up when the first dropped bit is set and either a lower
\* bit is, or the last kept bit is.
RoundsUp(a, s) ==
  /\ NatBit(a, s - 1) = 1
  /\ \/ NatBit(a, s) = 1
     \/ \E j \in 0..(s - 2) : NatBit(a, j) = 1

RoundAt(a, s) ==
  NatShiftLeft(IF RoundsUp(a, s) THEN NatAdd(NatHigh(a, s), <<1>>) ELSE NatHigh(a, s), s)

Precision == 53

Round53(a) == IF BitLen(a) <= Precision THEN a ELSE RoundAt(a, BitLen(a) - Precision)

Big(neg, mag) == [neg |-> neg /\ mag # <<>>, mag |-> mag]

\* The double of an integer Number of the exact model.
BigOf(v) == Big(v.n < 0, NatOf(Abs(v.n)))

BigAdd(a, b) ==
  IF a.neg = b.neg THEN Big(a.neg, Round53(NatAdd(a.mag, b.mag)))
  ELSE IF NatLess(a.mag, b.mag) THEN Big(b.neg, Round53(NatSub(b.mag, a.mag)))
  ELSE Big(a.neg, Round53(NatSub(a.mag, b.mag)))

BigSub(a, b) == BigAdd(a, Big(~b.neg, b.mag))

BigMul(a, b) == Big(a.neg # b.neg, Round53(NatMul(a.mag, b.mag)))

\* sum += f[i], in the order of the loop.
RECURSIVE BigSumFrom(_, _, _)
BigSumFrom(f, i, sum) ==
  IF i > Len(f) THEN sum ELSE BigSumFrom(f, i + 1, BigAdd(sum, f[i]))

BigSum(f) == BigSumFrom(f, 1, Big(FALSE, <<>>))

\* -------------------------------------------------------------- angles

\* The angle q * pi/2 + m * theta, theta = atan2(3, 4).
Angle(q, m) == [q |-> q, m |-> m]

\* The angle of a direction: sy, sx are the signs of dy, dx and ay : ax is
\* |dy| : |dx|.
Direction(sy, sx, ay, ax) ==
  CASE sy = 0 /\ sx >= 0 -> Angle(0, 0)
    [] sy = 0 /\ sx < 0  -> Angle(2, 0)
    [] sx = 0 /\ sy > 0  -> Angle(1, 0)
    [] sx = 0 /\ sy < 0  -> Angle(-1, 0)
    [] 4 * ay = 3 * ax /\ sx > 0 /\ sy > 0 -> Angle(0, 1)
    [] 4 * ay = 3 * ax /\ sx < 0 /\ sy > 0 -> Angle(2, -1)
    [] 4 * ay = 3 * ax /\ sx < 0 /\ sy < 0 -> Angle(-2, 1)
    [] 4 * ay = 3 * ax /\ sx > 0 /\ sy < 0 -> Angle(0, -1)
    [] 3 * ay = 4 * ax /\ sx > 0 /\ sy > 0 -> Angle(1, -1)
    [] 3 * ay = 4 * ax /\ sx < 0 /\ sy > 0 -> Angle(1, 1)
    [] 3 * ay = 4 * ax /\ sx < 0 /\ sy < 0 -> Angle(-1, -1)
    [] 3 * ay = 4 * ax /\ sx > 0 /\ sy < 0 -> Angle(-1, 1)

\* |a| and |b| over the common denominator of a and b: the numerator of |a|.
AbsOver(a, b) == Abs(a.n) * b.d * Pow(10, Max(b.x - a.x, 0))

\* Atan2 with its arguments taken as (dx, dy).
Atan2_swapped(dy, dx) ==
  Direction(Sign(dx.n), Sign(dy.n), AbsOver(dx, dy), AbsOver(dy, dx))

\* Math.atan2(dy, dx) for finite dy, dx along an axis or a 3-4-5 direction;
\* atan2(0, 0) is 0.
Atan2(dy, dx) == Direction(Sign(dy.n), Sign(dx.n), AbsOver(dy, dx), AbsOver(dx, dy))

ExactDirection(sy, sx, ay, ax) ==
  sy = 0 \/ sx = 0 \/ 4 * ay = 3 * ax \/ 3 * ay = 4 * ax

\* The displacements Atan2 is defined on.
HasExactAtan2(dy, dx) ==
  /\ dy.k = "fin" /\ dx.k = "fin"
  /\ ExactDirection(Sign(dy.n), Sign(dx.n), AbsOver(dy, dx), AbsOver(dx, dy))

AngleSub(r1, r2) == Angle(r1.q - r2.q, r1.m - r2.m)

\* <<cos, sin>> of m * theta, |m| <= 2.
CosSinTheta(m) ==
  CASE m = 0  -> <<Num(1), Num(0)>>
    [] m = 1  -> <<Rat(4, 5), Rat(3, 5)>>
    [] m = -1 -> <<Rat(4, 5), Rat(-3, 5)>>
    [] m = 2  -> <<Rat(7, 25), Rat(24, 25)>>
    [] m = -2 -> <<Rat(7, 25), Rat(-24, 25)>>

\* Math.cos(r) and Math.sin(r): m * theta turned by q quarter turns.
Cos(r) ==
  LET cs == CosSinTheta(r.m)
      t  == r.q % 4
  IN CASE t = 0 -> cs[1] [] t = 1 -> Neg(cs[2]) [] t = 2 -> Neg(cs[1]) [] t = 3 -> cs[2]

Sin(r) ==
  LET cs == CosSinTheta(r.m)
      t  == r.q % 4
  IN CASE t = 0 -> cs[2] [] t = 1 -> cs[1] [] t = 2 -> Neg(cs[2]) [] t = 3 -> Neg(cs[1])

\* ------------------------------------------------------------- results

\* A call either returns a value or throws an Error with a message.
Return(v) == [threw |-> FALSE, error |-> "", value |-> v]

Throw(msg) == [threw |-> TRUE, error |-> msg]

\* JavaScript null, as calculateTransform returns it.
Null == [type |-> "null"]

\* An argument that is an array or is missing (null, undefined).
Array(items) == [missing |-> FALSE, items |-> items]

Missing == [missing |-> TRUE, items |-> <<>>]

\* Destructuring a property: undefined when the object has none, and
\* undefined is NaN in arithmetic.
Prop(obj, name) == IF name \in DOMAIN obj THEN obj[name] ELSE NaN

\* ---------------------------------------------------------- transforms.js

\* Math.sqrt(dx * dx + dy * dy)
Dist(dx, dy) == Sqrt(Add(Mul(dx, dx), Mul(dy, dy)))

\* ComputeScale with the quotient inverted.
ComputeScale_inverted(dist_geo, dist_img) == Div(dist_img, dist_geo)

\* scale = dist_geo / dist_img, with no check of dist_img.
ComputeScale(dist_geo, dist_img) == Div(dist_geo, dist_img)

\* The translation from the first point, and the returned object.
SimilarityModel(p1, scale, rotation, cos_r, sin_r) ==
  Return([scale |-> scale,
          rotation |-> rotation,
          tx |-> Sub(p1.lon, Sub(Mul(Mul(scale, cos_r), p1.imageX),
                                 Mul(Mul(scale, sin_r), p1.imageY))),
          ty |-> Sub(p1.lat, Add(Mul(Mul(scale, sin_r), p1.imageX),
                                 Mul(Mul(scale, cos_r), p1.imageY)))])

SimilarityRotate(p1, scale, rotation) ==
  SimilarityModel(p1, scale, rotation, Cos(rotation), Sin(rotation))

\* Scale and rotation from the image-space and geographic vectors.
SimilarityFit(p1, dx_img, dy_img, dx_geo, dy_geo) ==
  SimilarityRotate(p1,
                   ComputeScale(Dist(dx_geo, dy_geo), Dist(dx_img, dy_img)),
                   AngleSub(Atan2(dy_geo, dx_geo), Atan2(dy_img, dx_img)))

computeSimilarityTransform(referencePoints) ==
  IF Len(referencePoints) < 2
  THEN Throw("Need at least 2 reference points")
  ELSE SimilarityFit(referencePoints[1],
                     Sub(referencePoints[2].imageX, referencePoints[1].imageX),
                     Sub(referencePoints[2].imageY, referencePoints[1].imageY),
                     Sub(referencePoints[2].lon, referencePoints[1].lon),
                     Sub(referencePoints[2].lat, referencePoints[1].lat))

RECURSIVE SumSeq(_)
SumSeq(s) == IF s = <<>> THEN Num(0) ELSE Add(s[1], SumSeq(Tail(s)))

\* AffineSums with the loop started at the second point.
AffineSums_skipsFirst(referencePoints) ==
  LET P == Tail(referencePoints)
      I == DOMAIN P
  IN [n     |-> Num(Len(referencePoints)),
      sum_x |-> SumSeq([i \in I |-> P[i].imageX]),
      sum_y |-> SumSeq([i \in I |-> P[i].imageY]),
      sum_x2 |-> SumSeq([i \in I |-> Mul(P[i].imageX, P[i].imageX)]),
      sum_y2 |-> SumSeq([i \in I |-> Mul(P[i].imageY, P[i].imageY)]),
      sum_xy |-> SumSeq([i \in I |-> Mul(P[i].imageX, P[i].imageY)]),
      sum_lon |-> SumSeq([i \in I |-> P[i].lon]),
      sum_lat |-> SumSeq([i \in I |-> P[i].lat]),
      sum_x_lon |-> SumSeq([i \in I |-> Mul(P[i].imageX, P[i].lon)]),
      sum_y_lon |-> SumSeq([i \in I |-> Mul(P[i].imageY, P[i].lon)]),
      sum_x_lat |-> SumSeq([i \in I |-> Mul(P[i].imageX, P[i].lat)]),
      sum_y_lat |-> SumSeq([i \in I |-> Mul(P[i].imageY, P[i].lat)])]

\* The eleven running sums of the loop over the points.
AffineSums(referencePoints) ==
  LET P == referencePoints
      I == DOMAIN referencePoints
  IN [n     |-> Num(Len(P)),
      sum_x |-> SumSeq([i \in I |-> P[i].imageX]),
      sum_y |-> SumSeq([i \in I |-> P[i].imageY]),
      sum_x2 |-> SumSeq([i \in I |-> Mul(P[i].imageX, P[i].imageX)]),
      sum_y2 |-> SumSeq([i \in I |-> Mul(P[i].imageY, P[i].imageY)]),
      sum_xy |-> SumSeq([i \in I |-> Mul(P[i].imageX, P[i].imageY)]),
      sum_lon |-> SumSeq([i \in I |-> P[i].lon]),
      sum_lat |-> SumSeq([i \in I |-> P[i].lat]),
      sum_x_lon |-> SumSeq([i \in I |-> Mul(P[i].imageX, P[i].lon)]),
      sum_y_lon |-> SumSeq([i \in I |-> Mul(P[i].imageY, P[i].lon)]),
      sum_x_lat |-> SumSeq([i \in I |-> Mul(P[i].imageX, P[i].lat)]),
      sum_y_lat |-> SumSeq([i \in I |-> Mul(P[i].imageY, P[i].lat)])]

\* The determinant of the normal-equations matrix.
AffineDet(s) ==
  Add(Sub(Mul(s.n, Sub(Mul(s.sum_x2, s.sum_y2), Mul(s.sum_xy, s.sum_xy))),
          Mul(s.sum_x, Sub(Mul(s.sum_x, s.sum_y2), Mul(s.sum_y, s.sum_xy)))),
      Mul(s.sum_y, Sub(Mul(s.sum_x, s.sum_xy), Mul(s.sum_y, s.sum_x2))))

\* The code's expression for a (with the lon sums) and for d (with the lat
\* sums): sum_v, sum_x_v, sum_y_v are the sums of v, x*v, y*v.
AffineCoefX(s, det, sum_v, sum_x_v, sum_y_v) ==
  Div(Add(Sub(Mul(s.n, Sub(Mul(sum_x_v, s.sum_y2), Mul(sum_y_v, s.sum_xy))),
              Mul(s.sum_x, Sub(Mul(sum_v, s.sum_y2), Mul(s.sum_y, sum_y_v)))),
          Mul(s.sum_y, Sub(Mul(sum_v, s.sum_xy), Mul(s.sum_y, sum_x_v)))),
      det)

\* The code's expression for b (lon sums) and for e (lat sums).
AffineCoefY(s, det, sum_v, sum_x_v, sum_y_v) ==
  Div(Add(Sub(Mul(s.n, Sub(Mul(s.sum_x2, sum_y_v), Mul(s.sum_xy, sum_x_v))),
              Mul(s.sum_x, Sub(Mul(s.sum_x, sum_y_v), Mul(s.sum_y, sum_x_v)))),
          Mul(s.sum_y, Sub(Mul(s.sum_x, sum_v), Mul(s.sum_x2, sum_v)))),
      det)

\* The code's expression for c_val (lon) and f_val (lat).
AffineCoefC(s, sum_v, cx, cy) ==
  Div(Sub(Sub(sum_v, Mul(cx, s.sum_x)), Mul(cy, s.sum_y)), s.n)

\* IsSingular as a test for exactly zero, with no tolerance.
IsSingular_exactZero(det) == IsZero(det)

\* Math.abs(det) < 1e-10
TolExp == 10

IsSingular(det) == AbsLess(det, TolExp)

\* The returned object, with c_val and f_val computed from the other four.
AffineModel(s, a, b, d, e) ==
  Return([a |-> a, b |-> b, c |-> AffineCoefC(s, s.sum_lon, a, b),
          d |-> d, e |-> e, f |-> AffineCoefC(s, s.sum_lat, d, e)])

\* The collinearity check on det, then the six coefficients.
AffineSolve(s, det) ==
  IF IsSingular(det)
  THEN Throw("Points are collinear, cannot compute affine transform")
  ELSE AffineModel(s,
                   AffineCoefX(s, det, s.sum_lon, s.sum_x_lon, s.sum_y_lon),
                   AffineCoefY(s, det, s.sum_lon, s.sum_x_lon, s.sum_y_lon),
                   AffineCoefX(s, det, s.sum_lat, s.sum_x_lat, s.sum_y_lat),
                   AffineCoefY(s, det, s.sum_lat, s.sum_x_lat, s.sum_y_lat))

AffineFit(s) == AffineSolve(s, AffineDet(s))

\* computeAffineTransform with "length < 3" written "length < 2".
computeAffineTransform_offByOne(referencePoints) ==
  IF Len(referencePoints) < 2
  THEN Throw("Need at least 3 reference points for affine transform")
  ELSE AffineFit(AffineSums(referencePoints))

computeAffineTransform(referencePoints) ==
  IF Len(referencePoints) < 3
  THEN Throw("Need at least 3 reference points for affine transform")
  ELSE AffineFit(AffineSums(referencePoints))

\* The running sums of the pixels, each += and each product rounded.
AffineSumsRounded(referencePoints) ==
  LET P == referencePoints
      I == DOMAIN referencePoints
  IN [n     |-> Big(FALSE, NatOf(Len(P))),
      sum_x |-> BigSum([i \in I |-> BigOf(P[i].imageX)]),
      sum_y |-> BigSum([i \in I |-> BigOf(P[i].imageY)]),
      sum_x2 |-> BigSum([i \in I |-> BigMul(BigOf(P[i].imageX), BigOf(P[i].imageX))]),
      sum_y2 |-> BigSum([i \in I |-> BigMul(BigOf(P[i].imageY), BigOf(P[i].imageY))]),
      sum_xy |-> BigSum([i \in I |-> BigMul(BigOf(P[i].imageX), BigOf(P[i].imageY))])]

\* det as the code evaluates it: every product, difference and sum rounded.
AffineDetRounded(s) ==
  BigAdd(BigSub(BigMul(s.n, BigSub(BigMul(s.sum_x2, s.sum_y2),
                                   BigMul(s.sum_xy, s.sum_xy))),
                BigMul(s.sum_x, BigSub(BigMul(s.sum_x, s.sum_y2),
                                       BigMul(s.sum_y, s.sum_xy)))),
         BigMul(s.sum_y, BigSub(BigMul(s.sum_x, s.sum_xy),
                                BigMul(s.sum_y, s.sum_x2))))

\* The object returned when det passes the test: its six coefficients are
\* rounded quotients by det, whose values are not modelled.
RoundedModel == [a |-> "/det", b |-> "/det", c |-> "/n",
                 d |-> "/det", e |-> "/det", f |-> "/n"]

\* Math.abs(det) < 1e-10 for an integer det: det is 0.
AffineSolveRounded(det) ==
  IF det.mag = <<>>
  THEN Throw("Points are collinear, cannot compute affine transform")
  ELSE Return(RoundedModel)

\* computeAffineTransform on integer pixels of any size.
computeAffineTransformRounded(referencePoints) ==
  IF Len(referencePoints) < 3
  THEN Throw("Need at least 3 reference points for affine transform")
  ELSE AffineSolveRounded(AffineDetRounded(AffineSumsRounded(referencePoints)))

\* imageToGeo taking every tag but 'similarity' for 'affine'.
imageToGeo_defaultsToAffine(imageX, imageY, transform, type) ==
  IF type = "similarity"
  THEN LET scale == Prop(transform, "scale")
           cos_r == IF "rotation" \in DOMAIN transform THEN Cos(transform.rotation) ELSE NaN
           sin_r == IF "rotation" \in DOMAIN transform THEN Sin(transform.rotation) ELSE NaN
           tx == Prop(transform, "tx")
           ty == Prop(transform, "ty")
           lon == Add(Sub(Mul(Mul(scale, cos_r), imageX), Mul(Mul(scale, sin_r), imageY)), tx)
           lat == Add(Add(Mul(Mul(scale, sin_r), imageX), Mul(Mul(scale, cos_r), imageY)), ty)
       IN Return([lon |-> lon, lat |-> lat])
  ELSE LET a == Prop(transform, "a")
           b == Prop(transform, "b")
           c == Prop(transform, "c")
           d == Prop(transform, "d")
           e == Prop(transform, "e")
           f == Prop(transform, "f")
           lon == Add(Add(Mul(a, imageX), Mul(b, imageY)), c)
           lat == Add(Add(Mul(d, imageX), Mul(e, imageY)), f)
       IN Return([lon |-> lon, lat |-> lat])

imageToGeo(imageX, imageY, transform, type) ==
  IF type = "similarity"
  THEN LET scale == Prop(transform, "scale")
           cos_r == IF "rotation" \in DOMAIN transform THEN Cos(transform.rotation) ELSE NaN
           sin_r == IF "rotation" \in DOMAIN transform THEN Sin(transform.rotation) ELSE NaN
           tx == Prop(transform, "tx")
           ty == Prop(transform, "ty")
           lon == Add(Sub(Mul(Mul(scale, cos_r), imageX), Mul(Mul(scale, sin_r), imageY)), tx)
           lat == Add(Add(Mul(Mul(scale, sin_r), imageX), Mul(Mul(scale, cos_r), imageY)), ty)
       IN Return([lon |-> lon, lat |-> lat])
  ELSE IF type = "affine"
  THEN LET a == Prop(transform, "a")
           b == Prop(transform, "b")
           c == Prop(transform, "c")
           d == Prop(transform, "d")
           e == Prop(transform, "e")
           f == Prop(transform, "f")
           lon == Add(Add(Mul(a, imageX), Mul(b, imageY)), c)
           lat == Add(Add(Mul(d, imageX), Mul(e, imageY)), f)
       IN Return([lon |-> lon, lat |-> lat])
  ELSE Throw("Unknown transform type")

\* AffineInverse with d not negated in imageY.
AffineInverse_signSlip(a, b, d, e, det, lon_shifted, lat_shifted) ==
  [imageX |-> Div(Sub(Mul(e, lon_shifted), Mul(b, lat_shifted)), det),
   imageY |-> Div(Add(Mul(d, lon_shifted), Mul(a, lat_shifted)), det)]

\* The 2x2 inverse applied to the shifted coordinates.
AffineInverse(a, b, d, e, det, lon_shifted, lat_shifted) ==
  [imageX |-> Div(Sub(Mul(e, lon_shifted), Mul(b, lat_shifted)), det),
   imageY |-> Div(Add(Mul(Neg(d), lon_shifted), Mul(a, lat_shifted)), det)]

\* SimilarityInverse with the forward rotation in place of its inverse.
SimilarityInverse_forwardRotation(scale, cos_r, sin_r, lon_shifted, lat_shifted) ==
  [imageX |-> Div(Sub(Mul(cos_r, lon_shifted), Mul(sin_r, lat_shifted)), scale),
   imageY |-> Div(Add(Mul(sin_r, lon_shifted), Mul(cos_r, lat_shifted)), scale)]

\* The inverse rotation and scale applied to the shifted coordinates.
SimilarityInverse(scale, cos_r, sin_r, lon_shifted, lat_shifted) ==
  [imageX |-> Div(Add(Mul(cos_r, lon_shifted), Mul(sin_r, lat_shifted)), scale),
   imageY |-> Div(Add(Mul(Neg(sin_r), lon_shifted), Mul(cos_r, lat_shifted)), scale)]

geoToImage(lon, lat, transform, type) ==
  IF type = "similarity"
  THEN LET scale == Prop(transform, "scale")
           cos_r == IF "rotation" \in DOMAIN transform THEN Cos(transform.rotation) ELSE NaN
           sin_r == IF "rotation" \in DOMAIN transform THEN Sin(transform.rotation) ELSE NaN
           tx == Prop(transform, "tx")
           ty == Prop(transform, "ty")
           lon_shifted == Sub(lon, tx)
           lat_shifted == Sub(lat, ty)
       IN Return(SimilarityInverse(scale, cos_r, sin_r, lon_shifted, lat_shifted))
  ELSE IF type = "affine"
  THEN LET a == Prop(transform, "a")
           b == Prop(transform, "b")
           c == Prop(transform, "c")
           d == Prop(transform, "d")
           e == Prop(transform, "e")
           f == Prop(transform, "f")
           det == Sub(Mul(a, e), Mul(b, d))
       IN IF IsSingular(det)
          THEN Throw("Transform is singular")
          ELSE LET lon_shifted == Sub(lon, c)
                   lat_shifted == Sub(lat, f)
               IN Return(AffineInverse(a, b, d, e, det, lon_shifted, lat_shifted))
  ELSE Throw("Unknown transform type")

\* {transform, type} around what a fitter returned; its exception passes.
Tagged(r, type) ==
  IF r.threw THEN r ELSE Return([transform |-> r.value, type |-> type])

\* calculateTransform with "length < 2" written "length <= 2".
calculateTransform_offByOne(referencePoints) ==
  IF referencePoints.missing \/ Len(referencePoints.items) <= 2
  THEN Return(Null)
  ELSE Tagged(computeAffineTransform(referencePoints.items), "affine")

calculateTransform(referencePoints) ==
  IF referencePoints.missing \/ Len(referencePoints.items) < 2
  THEN Return(Null)
  ELSE IF Len(referencePoints.items) = 2
  THEN Tagged(computeSimilarityTransform(referencePoints.items), "similarity")
  ELSE Tagged(computeAffineTransform(referencePoints.items), "affine")

\* ------------------------------------------------------------- harness

VARIABLES
  referencePoints,  \* the argument of calculateTransform: Array(list) or Missing
  fit,              \* what calculateTransform(referencePoints) did, once called
  transform,        \* the model handed to the evaluators
  type,             \* its type tag
  pixel,            \* the pixel handed to imageToGeo
  geo,              \* what imageToGeo did, or the coordinate handed to geoToImage
  back,             \* what geoToImage did
  pc                \* the calls made so far

\* The state of the map viewer around the transforms, and the record of the
\* calls made to them.
VARIABLES
  calls,            \* the calls of the exported functions made so far
  store,            \* the reference points of the map in the database
  userPosition,     \* the last GPS position, or null
  screen,           \* "viewer", "leaving" once the hash is cleared, then "list"
  alerts,           \* the messages shown with alert()
  loader,           \* where the running loadMapData is, and who awaits it
  needsRender,      \* a frame is scheduled
  canvas,           \* the arcs of the user position in the last frame
  fittedFrom        \* the points geoTransform was fitted from

\* The state of the rest of the application: the database behind db.js and
\* the parts of the viewer that the transforms do not touch.
VARIABLES
  db,               \* the two object stores of db.js and their key generators
  reply,            \* how the promise of the last db.js call settled
  view,             \* the view transform of the canvas: scale, translateX, translateY
  sizes,            \* imageWidth, imageHeight, canvasWidth, canvasHeight
  pendingReferencePoint, \* the point the user has placed and not yet saved
  animationFrameId, \* the handle of the last animation frame requested, or 0
  frames,           \* the handles of the animation frame callbacks pending
  zooms,            \* the wheel and pinch events handled so far
  dialog            \* the coordinate dialog and the edit dialog of the viewer

rest == <<db, reply, view, sizes, pendingReferencePoint, animationFrameId,
          frames, zooms, dialog>>

others == <<calls, store, userPosition, screen, alerts, loader, needsRender,
            canvas, fittedFrom>>

vars == <<referencePoints, fit, transform, type, pixel, geo, back, pc,
          calls, store, userPosition, screen, alerts, loader, needsRender,
          canvas, fittedFrom, rest>>

NoCall == [threw |-> FALSE, error |-> "not called"]

\* No viewer is mounted and no call has been recorded.
NoViewer ==
  /\ calls = <<>>
  /\ store = <<>>
  /\ userPosition = Null
  /\ screen = "none"
  /\ alerts = <<>>
  /\ loader = "none"
  /\ needsRender = FALSE
  /\ canvas = <<>>
  /\ fittedFrom = <<>>

\* Both dialogs closed: nothing selected, no point being edited, no
\* getCurrentPosition call in flight.  chosen is the history of the open
\* coordinate dialog: the coordinates its user last chose in it.
NoDialog ==
  [showingCoordinateSelection |-> FALSE,
   coordinateMethod |-> "null",
   selectedLon |-> Null,
   selectedLat |-> Null,
   editingPoint |-> Null,
   fixes |-> {},
   chosen |-> [lon |-> Null, lat |-> Null]]

\* Nothing outside the transforms and the map view is in use.
NoRest ==
  /\ db = Null
  /\ reply = NoCall
  /\ view = Null
  /\ sizes = Null
  /\ pendingReferencePoint = Null
  /\ animationFrameId = 0
  /\ frames = {}
  /\ zooms = 0
  /\ dialog = NoDialog

Pt(x, y, lon, lat) ==
  [imageX |-> Num(x), imageY |-> Num(y), lon |-> Num(lon), lat |-> Num(lat)]

\* The longest list handed to calculateTransform.
MaxPoints == 4

\* The reference points the lists are made of.
Candidates ==
  { Pt(0, 0, 10, 20), Pt(1, 0, 11, 20), Pt(0, 1, 10, 21),
    Pt(2, 0, 12, 20), Pt(1, 1, 10, 20), Pt(0, 0, 11, 20),
    Pt(1, 0, 10, 20), Pt(4, 3, 13, 24) }

ExactVectors(dx_img, dy_img, dx_geo, dy_geo) ==
  /\ HasExactAtan2(dy_img, dx_img)
  /\ HasExactAtan2(dy_geo, dx_geo)
  /\ HasExactSqrt(Add(Mul(dx_img, dx_img), Mul(dy_img, dy_img)))
  /\ HasExactSqrt(Add(Mul(dx_geo, dx_geo), Mul(dy_geo, dy_geo)))

\* The 2-point lists on which Math.sqrt and Math.atan2 are modelled exactly.
SimilarityExact(points) ==
  ExactVectors(Sub(points[2].imageX, points[1].imageX),
               Sub(points[2].imageY, points[1].imageY),
               Sub(points[2].lon, points[1].lon),
               Sub(points[2].lat, points[1].lat))

Init ==
  /\ referencePoints \in {Array(<<>>), Missing}
  /\ fit = NoCall
  /\ transform = Null
  /\ type = "none"
  /\ pixel = Null
  /\ geo = NoCall
  /\ back = NoCall
  /\ pc = "input"
  /\ NoViewer
  /\ NoRest

\* The caller collects one more reference point.
AddPoint(p) ==
  /\ pc = "input"
  /\ ~referencePoints.missing
  /\ Len(referencePoints.items) < MaxPoints
  /\ referencePoints' = Array(Append(referencePoints.items, p))
  /\ UNCHANGED <<fit, transform, type, pixel, geo, back, pc>>
  /\ UNCHANGED others
  /\ UNCHANGED rest

\* The caller calls calculateTransform(referencePoints).
Calculate ==
  /\ pc = "input"
  /\ IF Len(referencePoints.items) = 2
     THEN SimilarityExact(referencePoints.items)
     ELSE TRUE
  /\ fit' = calculateTransform(referencePoints)
  /\ pc' = "fitted"
  /\ UNCHANGED <<referencePoints, transform, type, pixel, geo, back>>
  /\ UNCHANGED others
  /\ UNCHANGED rest

Next ==
  \/ \E p \in Candidates : AddPoint(p)
  \/ Calculate

Spec == Init /\ [][Next]_vars

\* ---------------------------------------------------- evaluator harness

Px(x, y) == [imageX |-> x, imageY |-> y]

Geo(lon, lat) == [lon |-> lon, lat |-> lat]

\* The pixel of a reference point.
PixelOf(p) == Px(p.imageX, p.imageY)

\* The largest magnitude of an affine coefficient, in units.
MaxCoef == 2

\* The units the coefficients are multiples of: 1, 1/3, and 1e-5 and 1e-6
\* degrees per pixel, whose products are at and below the 1e-10 tolerance.
Units == {Num(1), Rat(1, 3), Dec(1, 5), Dec(1, 6)}

Offsets == {Geo(Num(0), Num(0)), Geo(Num(10), Num(20))}

AffineModels ==
  { [transform |-> [a |-> Mul(Num(a), u), b |-> Mul(Num(b), u), c |-> o.lon,
                    d |-> Mul(Num(d), u), e |-> Mul(Num(e), u), f |-> o.lat],
     type |-> "affine"] :
      a \in -MaxCoef..MaxCoef, b \in 0..MaxCoef, d \in 0..MaxCoef,
      e \in -MaxCoef..MaxCoef, u \in Units, o \in Offsets }

\* The model of spec scenario C: a=1, b=2, d=2, e=4.
ScenarioC ==
  [transform |-> [a |-> Num(1), b |-> Num(2), c |-> Num(0),
                  d |-> Num(2), e |-> Num(4), f |-> Num(0)],
   type |-> "affine"]

\* rotation = angle_geo - angle_img, each an atan2 of an exact direction.
Rotations == { Angle(q, m) : q \in -3..3, m \in -2..2 }

Scales == {Num(0), Num(1), Num(2), Dec(1, 2), Rat(1, 3), PosInf, NaN}

SimilarityModels ==
  { [transform |-> [scale |-> sc, rotation |-> r, tx |-> o.lon, ty |-> o.lat],
     type |-> "similarity"] :
      sc \in Scales, r \in Rotations, o \in Offsets }

\* Models as calculateTransform returns them.
FittedModels ==
  { calculateTransform(Array(l)).value :
      l \in { <<Pt(0, 0, 10, 20), Pt(1, 0, 10, 20)>>,
              <<Pt(0, 0, 10, 20), Pt(4, 3, 13, 24)>>,
              <<Pt(0, 0, 10, 20), Pt(0, 0, 11, 20)>>,
              <<Pt(0, 0, 10, 20), Pt(1, 0, 11, 20), Pt(0, 1, 10, 21)>> } }

Models == AffineModels \cup {ScenarioC} \cup SimilarityModels \cup FittedModels

Pixels ==
  { Px(Num(0), Num(0)), Px(Num(5), Num(5)), Px(Num(-2), Num(3)),
    Px(Rat(1, 2), Num(7)) }

Geos == { Geo(Num(0), Num(0)), Geo(Num(15), Num(25)), Geo(Rat(21, 2), Num(20)) }

InitEval ==
  /\ referencePoints = Array(<<>>)
  /\ fit = NoCall
  /\ \E m \in Models : transform = m.transform /\ type = m.type
  /\ pixel \in Pixels
  /\ geo = NoCall
  /\ back = NoCall
  /\ pc = "model"
  /\ NoViewer
  /\ NoRest

\* imageToGeo(pixel.imageX, pixel.imageY, transform, type)
Forward ==
  /\ pc = "model"
  /\ geo' = imageToGeo(pixel.imageX, pixel.imageY, transform, type)
  /\ pc' = "forward"
  /\ UNCHANGED <<referencePoints, fit, transform, type, pixel, back>>
  /\ UNCHANGED others
  /\ UNCHANGED rest

\* geoToImage of the coordinate imageToGeo returned, with the same model.
Inverse ==
  /\ pc = "forward"
  /\ ~geo.threw
  /\ back' = geoToImage(geo.value.lon, geo.value.lat, transform, type)
  /\ pc' = "inverse"
  /\ UNCHANGED <<referencePoints, fit, transform, type, pixel, geo>>
  /\ UNCHANGED others
  /\ UNCHANGED rest

\* geoToImage(g.lon, g.lat, transform, type) of a coordinate from outside.
InverseAt(g) ==
  /\ pc = "model"
  /\ geo' = Return(g)
  /\ back' = geoToImage(g.lon, g.lat, transform, type)
  /\ pc' = "direct"
  /\ UNCHANGED <<referencePoints, fit, transform, type, pixel>>
  /\ UNCHANGED others
  /\ UNCHANGED rest

NextEval ==
  \/ Forward
  \/ Inverse
  \/ \E g \in Geos : InverseAt(g)

SpecEval == InitEval /\ [][NextEval]_vars

\* ---------------------------------------------------- large-image harness
\* The affine fit on the pixels of a large image.

MaxLargePoints == 3

LargeCandidates ==
  {Pt(4315, 4244, 10, 20), Pt(6027, 6054, 11, 20), Pt(6883, 6959, 10, 21),
   Pt(6883, 6960, 12, 20), Pt(0, 0, 10, 20), Pt(1, 2, 11, 21)}

InitLarge ==
  /\ referencePoints = Array(<<>>)
  /\ fit = NoCall
  /\ transform = Null
  /\ type = "none"
  /\ pixel = Null
  /\ geo = NoCall
  /\ back = NoCall
  /\ pc = "input"
  /\ NoViewer
  /\ NoRest

AddLargePoint(p) ==
  /\ pc = "input"
  /\ Len(referencePoints.items) < MaxLargePoints
  /\ referencePoints' = Array(Append(referencePoints.items, p))
  /\ UNCHANGED <<fit, transform, type, pixel, geo, back, pc>>
  /\ UNCHANGED others
  /\ UNCHANGED rest

FitAffine ==
  /\ pc = "input"
  /\ fit' = computeAffineTransformRounded(referencePoints.items)
  /\ pc' = "fitted"
  /\ UNCHANGED <<referencePoints, transform, type, pixel, geo, back>>
  /\ UNCHANGED others
  /\ UNCHANGED rest

NextLarge ==
  \/ \E p \in LargeCandidates : AddLargePoint(p)
  \/ FitAffine

SpecLarge == InitLarge /\ [][NextLarge]_vars

\* ------------------------------------------------------- fitter harness
\* Direct calls of the two fitters, and imageToGeo on the fit points.

\* The longest list handed to a fitter.
MaxFitPoints == 3

\* Spec scenario A: the image x-axis maps to +latitude.
ScenarioA == <<Pt(0, 0, 0, 0), Pt(100, 0, 0, 1)>>

FitCandidates ==
  { ScenarioA[1], ScenarioA[2], Pt(0, 0, 10, 20), Pt(4, 3, 13, 24),
    Pt(4, 3, 7, 24), Pt(1, 0, 10, 22), Pt(0, 2, 11, 20), Pt(3, 4, 2, 17) }

InitFit ==
  /\ referencePoints = Array(<<>>)
  /\ fit = NoCall
  /\ transform = Null
  /\ type = "none"
  /\ pixel = Null
  /\ geo = NoCall
  /\ back = NoCall
  /\ pc = "input"
  /\ NoViewer
  /\ NoRest

AddFitPoint(p) ==
  /\ pc = "input"
  /\ Len(referencePoints.items) < MaxFitPoints
  /\ referencePoints' = Array(Append(referencePoints.items, p))
  /\ UNCHANGED <<fit, transform, type, pixel, geo, back, pc>>
  /\ UNCHANGED others
  /\ UNCHANGED rest

\* computeSimilarityTransform(referencePoints)
FitSimilarity ==
  /\ pc = "input"
  /\ IF Len(referencePoints.items) >= 2
     THEN SimilarityExact(referencePoints.items)
     ELSE TRUE
  /\ fit' = computeSimilarityTransform(referencePoints.items)
  /\ type' = "similarity"
  /\ pc' = "fitted"
  /\ UNCHANGED <<referencePoints, transform, pixel, geo, back>>
  /\ UNCHANGED others
  /\ UNCHANGED rest

\* computeAffineTransform(referencePoints)
FitAffineExact ==
  /\ pc = "input"
  /\ fit' = computeAffineTransform(referencePoints.items)
  /\ type' = "affine"
  /\ pc' = "fitted"
  /\ UNCHANGED <<referencePoints, transform, pixel, geo, back>>
  /\ UNCHANGED others
  /\ UNCHANGED rest

\* imageToGeo of fit point i with the model the fitter returned.
MapFitPoint(i) ==
  /\ pc = "fitted"
  /\ ~fit.threw
  /\ transform' = fit.value
  /\ pixel' = Px(referencePoints.items[i].imageX, referencePoints.items[i].imageY)
  /\ geo' = imageToGeo(referencePoints.items[i].imageX,
                       referencePoints.items[i].imageY, fit.value, type)
  /\ pc' = "mapped"
  /\ UNCHANGED <<referencePoints, fit, type, back>>
  /\ UNCHANGED others
  /\ UNCHANGED rest

NextFit ==
  \/ \E p \in FitCandidates : AddFitPoint(p)
  \/ FitSimilarity
  \/ FitAffineExact
  \/ \E i \in DOMAIN referencePoints.items : MapFitPoint(i)

SpecFit == InitFit /\ [][NextFit]_vars

\* ------------------------------------------------------ dispatch harness
\* The evaluators called with any type tag on a model of either shape.

\* The type arguments: the two kinds, other strings, and "null" and
\* "undefined" for the values null and undefined, which like every other
\* value are === neither 'similarity' nor 'affine'.
Tags == {"similarity", "affine", "Affine", "projective", "", "null", "undefined"}

TagModels ==
  { [scale |-> Num(2), rotation |-> Angle(1, 0), tx |-> Num(10), ty |-> Num(20)],
    [scale |-> Dec(1, 2), rotation |-> Angle(0, 1), tx |-> Num(0), ty |-> Num(0)],
    [a |-> Num(1), b |-> Num(0), c |-> Num(10), d |-> Num(0), e |-> Num(1), f |-> Num(20)],
    ScenarioC.transform }

InitTag ==
  /\ referencePoints = Array(<<>>)
  /\ fit = NoCall
  /\ transform \in TagModels
  /\ type \in Tags
  /\ pixel \in Pixels
  /\ geo = NoCall
  /\ back = NoCall
  /\ pc = "model"
  /\ NoViewer
  /\ NoRest

SpecTag == InitTag /\ [][NextEval]_vars

\* ------------------------------------------------------ session harness
\* Calls of the three exported functions, in any order, on one list object
\* and one model object.

\* The most calls of one session.
MaxCalls == 3

\* An argument object with the reverse of what it held.
ArgumentAfter_reversed(object) ==
  IF "items" \in DOMAIN object
  THEN [object EXCEPT !.items = [i \in DOMAIN object.items |->
                                   object.items[Len(object.items) + 1 - i]]]
  ELSE object

\* An argument object after a call: the functions read their arguments
\* (indexing, for...of, destructuring) and assign to no element or field of
\* them, and the module has no binding outside its functions.
ArgumentAfter(object) == object

SessionLists ==
  { Missing, Array(<<>>), Array(<<Pt(0, 0, 10, 20), Pt(4, 3, 13, 24)>>),
    Array(<<Pt(0, 0, 10, 20), Pt(1, 0, 11, 20), Pt(0, 1, 10, 21)>>),
    Array(<<Pt(0, 0, 10, 20), Pt(1, 0, 11, 20), Pt(2, 0, 12, 20)>>) }

InitSession ==
  /\ referencePoints \in SessionLists
  /\ fit = NoCall
  /\ \E m \in FittedModels \cup {ScenarioC} : transform = m.transform /\ type = m.type
  /\ pixel = Px(Num(5), Num(5))
  /\ geo = NoCall
  /\ back = NoCall
  /\ pc = "session"
  /\ calls = <<>>
  /\ store = <<>>
  /\ userPosition = Null
  /\ screen = "none"
  /\ alerts = <<>>
  /\ loader = "none"
  /\ needsRender = FALSE
  /\ canvas = <<>>
  /\ fittedFrom = <<>>
  /\ NoRest

\* The record of one call: the function, the argument object as it was
\* before and after, the other arguments, and what the call did.
Call(fn, object, after, at, result) ==
  [fn |-> fn, object |-> object, after |-> after, at |-> at, result |-> result]

CallCalculateTransform ==
  /\ Len(calls) < MaxCalls
  /\ fit' = calculateTransform(referencePoints)
  /\ referencePoints' = ArgumentAfter(referencePoints)
  /\ calls' = Append(calls, Call("calculateTransform", referencePoints,
                                 referencePoints', Null, fit'))
  /\ UNCHANGED <<transform, type, pixel, geo, back, pc>>
  /\ UNCHANGED <<store, userPosition, screen, alerts, loader, needsRender,
                 canvas, fittedFrom>>
  /\ UNCHANGED rest

CallImageToGeo ==
  /\ Len(calls) < MaxCalls
  /\ geo' = imageToGeo(pixel.imageX, pixel.imageY, transform, type)
  /\ transform' = ArgumentAfter(transform)
  /\ calls' = Append(calls, Call("imageToGeo", transform, transform', pixel, geo'))
  /\ UNCHANGED <<referencePoints, fit, type, pixel, back, pc>>
  /\ UNCHANGED <<store, userPosition, screen, alerts, loader, needsRender,
                 canvas, fittedFrom>>
  /\ UNCHANGED rest

CallGeoToImage(g) ==
  /\ Len(calls) < MaxCalls
  /\ back' = geoToImage(g.lon, g.lat, transform, type)
  /\ transform' = ArgumentAfter(transform)
  /\ calls' = Append(calls, Call("geoToImage", transform, transform', g, back'))
  /\ UNCHANGED <<referencePoints, fit, type, pixel, geo, pc>>
  /\ UNCHANGED <<store, userPosition, screen, alerts, loader, needsRender,
                 canvas, fittedFrom>>
  /\ UNCHANGED rest

NextSession ==
  \/ CallCalculateTransform
  \/ CallImageToGeo
  \/ \E g \in Geos : CallGeoToImage(g)

SpecSession == InitSession /\ [][NextSession]_vars

\* --------------------------------------------------------------- viewer
\* MapViewer.svelte around the transforms: the reference points of the map
\* in the database, the list and the cached geoTransform of the component,
\* loadMapData with its awaits, the GPS callback and render.  Between two
\* awaits a handler runs to completion; at an await any other callback may
\* run.  getMap resolves with the map the viewer was opened on.

\* The most reference points stored for the map.
MaxStored == 3

\* The points the user places: three corners of a 4 x 3 rectangle and a
\* fourth point on the line of the first two, mapped by lon = x + 10,
\* lat = y + 20.
ViewerCandidates ==
  { Pt(0, 0, 10, 20), Pt(4, 0, 14, 20), Pt(4, 3, 14, 23), Pt(8, 0, 18, 20) }

\* The coordinates the user gives a point when editing it.
EditedGeos == { Geo(Num(10), Num(20)) }

Position(lon, lat, accuracy) ==
  [longitude |-> Num(lon), latitude |-> Num(lat), accuracy |-> accuracy]

\* The positions the GPS reports, with an accuracy; accuracy 0 stands for a
\* missing accuracy.
Positions == { Position(12, 21, 5) }

\* Where loadMapData stands: at one of its two awaits, or not running.
Idle == "idle"

\* onMount has called loadMapData, which awaits getMap.
InitViewer ==
  /\ store \in {<<>>} \cup { <<p>> : p \in ViewerCandidates }
              \cup { <<Pt(0, 0, 10, 20), p>> : p \in ViewerCandidates \ {Pt(0, 0, 10, 20)} }
  /\ referencePoints = Array(<<>>)
  /\ fit = NoCall
  /\ transform = Null
  /\ type = "null"
  /\ pixel = Null
  /\ geo = NoCall
  /\ back = NoCall
  /\ pc = "mounting"
  /\ calls = <<>>
  /\ userPosition = Null
  /\ screen = "viewer"
  /\ alerts = <<>>
  /\ loader = "getMap"
  /\ needsRender = FALSE
  /\ canvas = <<>>
  /\ fittedFrom = <<>>
  /\ NoRest

\* map = await getMap(...) resolves; loadMapData goes on to await
\* getReferencePoints.
MapLoaded ==
  /\ screen = "viewer"
  /\ loader = "getMap"
  /\ loader' = "getReferencePoints"
  /\ UNCHANGED <<referencePoints, fit, transform, type, pixel, geo, back, pc,
                 calls, store, userPosition, screen, alerts, needsRender,
                 canvas, fittedFrom>>
  /\ UNCHANGED rest

\* What the caller of loadMapData does when it returns: onMount sets up the
\* canvas, whose image schedules a frame when loaded, and starts the GPS;
\* the three point handlers schedule a frame.
AfterLoad ==
  /\ pc' = "running"
  /\ needsRender' = TRUE
  /\ loader' = Idle

\* updateGeoTransform, its call of calculateTransform having returned result.
UpdateGeoTransform(result) ==
  /\ transform' = IF result.value = Null THEN Null ELSE result.value.transform
  /\ type' = IF result.value = Null THEN "null" ELSE result.value.type
  /\ fittedFrom' = store
  /\ UNCHANGED <<screen, alerts>>

\* The catch of loadMapData: alert and goBack, geoTransform left as it was.
\* goBack clears the hash; the viewer stays mounted until App handles the
\* hashchange event.
LoadFailed ==
  /\ alerts' = Append(alerts, "Failed to load map")
  /\ screen' = "leaving"
  /\ UNCHANGED <<transform, type, fittedFrom>>

\* referencePoints = await getReferencePoints(...) resolves with the stored
\* points, and updateGeoTransform() runs in the same turn.
PointsLoaded ==
  /\ screen = "viewer"
  /\ loader = "getReferencePoints"
  /\ referencePoints' = Array(store)
  /\ fit' = calculateTransform(referencePoints')
  /\ IF fit'.threw THEN LoadFailed ELSE UpdateGeoTransform(fit')
  /\ AfterLoad
  /\ UNCHANGED <<pixel, geo, back, calls, store, userPosition, canvas>>
  /\ UNCHANGED rest

\* The viewer is mounted: App shows it, or is about to leave it.
Mounted == screen \in {"viewer", "leaving"}

\* The watchPosition callback: userPosition is set and a frame scheduled.
PositionUpdate(p) ==
  /\ Mounted
  /\ pc = "running"
  /\ userPosition' = p
  /\ needsRender' = TRUE
  /\ UNCHANGED <<referencePoints, fit, transform, type, pixel, geo, back, pc,
                 calls, store, screen, alerts, loader, canvas, fittedFrom>>
  /\ UNCHANGED rest

Arc(what, at) == [what |-> what, imageX |-> at.imageX, imageY |-> at.imageY]

\* The arcs drawn at imgCoords: the accuracy circle when the position has an
\* accuracy, the marker and the direction indicator.
MarkerArcs(position, imgCoords) ==
  (IF position.accuracy # 0 THEN <<Arc("accuracy", imgCoords)>> ELSE <<>>)
    \o <<Arc("marker", imgCoords), Arc("direction", imgCoords)>>

\* The try block of render: nothing is drawn when geoToImage throws.
DrawUserPosition(position, imgCoords) ==
  IF imgCoords.threw THEN <<>> ELSE MarkerArcs(position, imgCoords.value)

\* render, run by the animation frame that scheduleRender requested.
Render ==
  /\ Mounted
  /\ needsRender
  /\ needsRender' = FALSE
  /\ IF userPosition # Null /\ transform # Null
     THEN /\ back' = geoToImage(userPosition.longitude, userPosition.latitude,
                                transform, type)
          /\ canvas' = DrawUserPosition(userPosition, back')
     ELSE /\ canvas' = <<>>
          /\ back' = NoCall
  /\ UNCHANGED <<referencePoints, fit, transform, type, pixel, geo, pc,
                 calls, store, userPosition, screen, alerts, loader,
                 fittedFrom>>
  /\ UNCHANGED rest

\* The handler has awaited its write to the database and called
\* loadMapData, which awaits getMap.
Reload ==
  /\ loader' = "getMap"
  /\ UNCHANGED <<referencePoints, fit, transform, type, pixel, geo, back, pc,
                 calls, userPosition, screen, alerts, needsRender, canvas,
                 fittedFrom>>
  /\ UNCHANGED rest

\* saveReferencePoint: addReferencePoint, then loadMapData.  The user places
\* a point on a pixel that has none.
SaveReferencePoint(p) ==
  /\ screen = "viewer" /\ pc = "running" /\ loader = Idle
  /\ Len(store) < MaxStored
  /\ \A i \in DOMAIN store : PixelOf(store[i]) # PixelOf(p)
  /\ store' = Append(store, p)
  /\ Reload

\* saveEditedPoint: updateReferencePoint(id, {lon, lat}), then loadMapData.
SaveEditedPoint(i, g) ==
  /\ screen = "viewer" /\ pc = "running" /\ loader = Idle
  /\ store' = [store EXCEPT ![i] = [@ EXCEPT !.lon = g.lon, !.lat = g.lat]]
  /\ Reload

\* deleteEditingPoint: deleteReferencePoint(id), then loadMapData.
DeleteEditingPoint(i) ==
  /\ screen = "viewer" /\ pc = "running" /\ loader = Idle
  /\ store' = SubSeq(store, 1, i - 1) \o SubSeq(store, i + 1, Len(store))
  /\ Reload

\* handleHashChange of App: the hash is empty, the list replaces the viewer.
HandleHashChange ==
  /\ screen = "leaving"
  /\ screen' = "list"
  /\ UNCHANGED <<referencePoints, fit, transform, type, pixel, geo, back, pc,
                 calls, store, userPosition, alerts, loader, needsRender,
                 canvas, fittedFrom>>
  /\ UNCHANGED rest

NextViewer ==
  \/ MapLoaded
  \/ PointsLoaded
  \/ \E p \in Positions : PositionUpdate(p)
  \/ Render
  \/ \E p \in ViewerCandidates : SaveReferencePoint(p)
  \/ \E i \in DOMAIN store : \E g \in EditedGeos : SaveEditedPoint(i, g)
  \/ \E i \in DOMAIN store : DeleteEditingPoint(i)
  \/ HandleHashChange

SpecViewer == InitViewer /\ [][NextViewer]_vars

\* --------------------------------------------------- fine-scale harness
\* The affine fit of a map drawn at about a millionth of a degree per pixel,
\* and geoToImage with the fitted model.

\* A reference point at pixel (x, y) with lon, lat in millionths of a degree.
FinePt(x, y, lon, lat) ==
  [imageX |-> Num(x), imageY |-> Num(y), lon |-> Dec(lon, 6), lat |-> Dec(lat, 6)]

\* Pixels of a 2 x 2 square, most of them mapped by lon = x * 1e-6,
\* lat = y * 1e-6.
FineCandidates ==
  { FinePt(0, 0, 0, 0), FinePt(1, 0, 1, 0), FinePt(0, 1, 0, 1),
    FinePt(1, 1, 1, 1), FinePt(2, 0, 2, 0), FinePt(2, 2, 3, 1) }

\* The coordinates looked up on the map, in millionths of a degree.
FineGeos == { Geo(Dec(0, 6), Dec(0, 6)), Geo(Dec(1, 6), Dec(2, 6)) }

AddFinePoint(p) ==
  /\ pc = "input"
  /\ Len(referencePoints.items) < MaxFitPoints
  /\ referencePoints' = Array(Append(referencePoints.items, p))
  /\ UNCHANGED <<fit, transform, type, pixel, geo, back, pc>>
  /\ UNCHANGED others
  /\ UNCHANGED rest

\* geoToImage of a coordinate with the model computeAffineTransform returned.
LocateOnFit(g) ==
  /\ pc = "fitted"
  /\ ~fit.threw
  /\ transform' = fit.value
  /\ geo' = Return(g)
  /\ back' = geoToImage(g.lon, g.lat, fit.value, type)
  /\ pc' = "located"
  /\ UNCHANGED <<referencePoints, fit, type, pixel>>
  /\ UNCHANGED others
  /\ UNCHANGED rest

NextFine ==
  \/ \E p \in FineCandidates : AddFinePoint(p)
  \/ FitAffineExact
  \/ \E g \in FineGeos : LocateOnFit(g)

SpecFine == InitFit /\ [][NextFine]_vars

\* ---------------------------------------------------------------- db.js
\* The IndexedDB wrapper: the object stores 'maps' and 'referencePoints',
\* both keyed by an auto-increment id, the second indexed by mapId.  A
\* transaction is atomic: each call below is one transaction, and an aborted
\* transaction leaves the stores as they were.

\* The highest key the key generator of 'referencePoints' hands out.
MaxKeys == 3

Undefined == [type |-> "undefined"]

\* The maps in the store when the session starts.
StoredMaps == {1, 2}

\* The mapId arguments: the stored maps and one that is not stored.
MapIds == StoredMaps \cup {3}

\* The pointId arguments: every key the generator can have handed out.
PointIds == 1 .. MaxKeys

\* The pointData handed to addReferencePoint, but for its mapId.
StoreCandidates == { Pt(4, 3, 14, 23) }

\* The updates handed to updateReferencePoint: the { lon, lat } of
\* saveEditedPoint, and an object with one of the two.
Updates == { [lon |-> Num(10), lat |-> Num(20)], [lon |-> Num(10)] }

\* Date.now(): a clock that has advanced with every record created.
Now(d) == d.mapKey + d.pointKey + 1

RECURSIVE Ascending_greatestFirst(_)
Ascending_greatestFirst(S) ==
  IF S = {} THEN <<>>
  ELSE LET greatest == CHOOSE i \in S : \A j \in S : i >= j
       IN <<greatest>> \o Ascending_greatestFirst(S \ {greatest})

\* The keys of S in ascending order, as an index or a store iterates them.
RECURSIVE Ascending(_)
Ascending(S) ==
  IF S = {} THEN <<>>
  ELSE LET least == CHOOSE i \in S : \A j \in S : i <= j
       IN <<least>> \o Ascending(S \ {least})

\* index.getAll(mapId): the records whose mapId is the key, by primary key.
IndexGetAll(points, mapId) ==
  LET keys == Ascending({ i \in DOMAIN points : points[i].mapId = mapId })
  IN [n \in DOMAIN keys |-> points[keys[n]]]

\* store.add(point) / store.put(point): the record under its key.
Put(records, key, record) ==
  [i \in DOMAIN records \cup {key} |-> IF i = key THEN record ELSE records[i]]

\* store.delete(key), and the cursor.delete() of every key of a set.
Delete(records, keys) == [i \in DOMAIN records \ keys |-> records[i]]

Spread_pointWins(point, updates) ==
  [f \in DOMAIN point \cup DOMAIN updates |->
     IF f \in DOMAIN point THEN point[f] ELSE updates[f]]

\* { ...point, ...updates }
Spread(point, updates) ==
  [f \in DOMAIN point \cup DOMAIN updates |->
     IF f \in DOMAIN updates THEN updates[f] ELSE point[f]]

\* How the promise of a call settled.
Settled(fn, at, outcome) == [fn |-> fn, at |-> at, outcome |-> outcome]

AbortError == "AbortError"

frame == <<referencePoints, fit, transform, type, pixel, geo, back, pc>>

InitStore ==
  /\ referencePoints = Array(<<>>)
  /\ fit = NoCall
  /\ transform = Null
  /\ type = "none"
  /\ pixel = Null
  /\ geo = NoCall
  /\ back = NoCall
  /\ pc = "store"
  /\ NoViewer
  /\ db = [maps |-> [i \in StoredMaps |-> [id |-> i, timestamp |-> i]],
           points |-> [i \in {} |-> Null],
           mapKey |-> 2,
           pointKey |-> 0]
  /\ reply = Settled("initDB", 0, Return(Undefined))
  /\ view = Null
  /\ sizes = Null
  /\ pendingReferencePoint = Null
  /\ animationFrameId = 0
  /\ frames = {}
  /\ zooms = 0
  /\ dialog = NoDialog

\* addReferencePoint(pointData): the key generator gives the next id.
AddReferencePoint(mapId, p) ==
  /\ db.pointKey < MaxKeys
  /\ LET id == db.pointKey + 1
         point == [id |-> id, mapId |-> mapId,
                   imageX |-> p.imageX, imageY |-> p.imageY,
                   lon |-> p.lon, lat |-> p.lat, timestamp |-> Now(db)]
     IN /\ db' = [db EXCEPT !.points = Put(@, id, point), !.pointKey = id]
        /\ reply' = Settled("addReferencePoint", mapId, Return(id))
  /\ UNCHANGED <<frame, others, view, sizes, pendingReferencePoint,
                 animationFrameId, frames, zooms,
                 dialog>>

\* getReferencePoints(mapId)
GetReferencePoints(mapId) ==
  /\ reply' = Settled("getReferencePoints", mapId,
                      Return(IndexGetAll(db.points, mapId)))
  /\ UNCHANGED <<frame, others, db, view, sizes, pendingReferencePoint,
                 animationFrameId, frames, zooms,
                 dialog>>

\* updateReferencePoint(pointId, updates)
UpdateReferencePoint(pointId, updates) ==
  /\ IF pointId \notin DOMAIN db.points
     THEN /\ reply' = Settled("updateReferencePoint",
                              [pointId |-> pointId, updates |-> updates],
                              Throw("Point not found"))
          /\ UNCHANGED db
     ELSE LET updatedPoint == Spread(db.points[pointId], updates)
          IN /\ db' = [db EXCEPT !.points = Put(@, updatedPoint.id, updatedPoint)]
             /\ reply' = Settled("updateReferencePoint",
                                 [pointId |-> pointId, updates |-> updates],
                                 Return(updatedPoint))
  /\ UNCHANGED <<frame, others, view, sizes, pendingReferencePoint,
                 animationFrameId, frames, zooms,
                 dialog>>

\* deleteReferencePoint(pointId)
DeleteReferencePoint(pointId) ==
  /\ db' = [db EXCEPT !.points = Delete(@, {pointId})]
  /\ reply' = Settled("deleteReferencePoint", pointId, Return(Undefined))
  /\ UNCHANGED <<frame, others, view, sizes, pendingReferencePoint,
                 animationFrameId, frames, zooms,
                 dialog>>

WithoutMap_keepsPoints(d, mapId) == [d EXCEPT !.maps = Delete(@, {mapId})]

\* The stores after the transaction of deleteMap(mapId) has completed.
WithoutMap(d, mapId) ==
  [d EXCEPT !.maps = Delete(@, {mapId}),
            !.points = Delete(@, { i \in DOMAIN d.points : d.points[i].mapId = mapId })]

\* deleteMap(mapId): one transaction over both stores, which completes or
\* is aborted.
DeleteMap(mapId, completes) ==
  /\ IF completes
     THEN /\ db' = WithoutMap(db, mapId)
          /\ reply' = Settled("deleteMap", mapId, Return(Undefined))
     ELSE /\ UNCHANGED db
          /\ reply' = Settled("deleteMap", mapId, Throw(AbortError))
  /\ UNCHANGED <<frame, others, view, sizes, pendingReferencePoint,
                 animationFrameId, frames, zooms,
                 dialog>>

NextStore ==
  \/ \E m \in StoredMaps : \E p \in StoreCandidates : AddReferencePoint(m, p)
  \/ \E m \in MapIds : GetReferencePoints(m)
  \/ \E i \in PointIds : \E u \in Updates : UpdateReferencePoint(i, u)
  \/ \E i \in PointIds : DeleteReferencePoint(i)
  \/ \E m \in MapIds : \E completes \in BOOLEAN : DeleteMap(m, completes)

SpecStore == InitStore /\ [][NextStore]_vars

\* --------------------------------------------------------------- canvas
\* MapViewer.svelte on the canvas side: the view transform (fit to the
\* canvas, wheel and pinch zoom), screenToImage and the pending reference
\* point, scheduleRender and the animation frames.  The view rotation is 0
\* throughout (the code that would change it is commented out), so the
\* inverse rotation of screenToImage is the identity.

\* The most wheel and pinch events handled in a session.
MaxZooms == 2

\* The most animation frames requested in a session.
MaxFrames == 3

\* a < b on Numbers; false when either is NaN.
Less(a, b) ==
  /\ a.k # "nan" /\ b.k # "nan"
  /\ a # b
  /\ Sub(a, b).k # "nan" /\ Sub(a, b).n < 0

\* a <= b on Numbers; false when either is NaN.
AtMost(a, b) == a.k # "nan" /\ b.k # "nan" /\ ~Less(b, a)

\* Math.min and Math.max of two Numbers: NaN when either is NaN.
MathMin(a, b) ==
  IF a.k = "nan" \/ b.k = "nan" THEN NaN ELSE IF Less(b, a) THEN b ELSE a

MathMax(a, b) ==
  IF a.k = "nan" \/ b.k = "nan" THEN NaN ELSE IF Less(a, b) THEN b ELSE a

MinScale == Dec(1, 1)

MaxScale == Num(10)

\* Math.max(0.1, Math.min(10, scale))
ClampScale(scale) == MathMax(MinScale, MathMin(MaxScale, scale))

\* fitImageToCanvas: the view after it.
FitImageToCanvas(sz) ==
  [scale |-> Mul(MathMin(Div(sz.canvasWidth, sz.imageWidth),
                         Div(sz.canvasHeight, sz.imageHeight)), Dec(9, 1)),
   translateX |-> Div(sz.canvasWidth, Num(2)),
   translateY |-> Div(sz.canvasHeight, Num(2))]

\* screenToImage without the test of the image bounds.
ScreenToImage_unchecked(v, sz, screenX, screenY) ==
  IF IsZero(sz.imageWidth) \/ IsZero(sz.imageHeight) THEN Null
  ELSE [x |-> Add(Div(Sub(screenX, v.translateX), v.scale),
                  Div(sz.imageWidth, Num(2))),
        y |-> Add(Div(Sub(screenY, v.translateY), v.scale),
                  Div(sz.imageHeight, Num(2)))]

\* screenToImage: null before the image size is known and outside the image.
ScreenToImage(v, sz, screenX, screenY) ==
  IF IsZero(sz.imageWidth) \/ IsZero(sz.imageHeight) THEN Null
  ELSE LET imageX == Add(Div(Sub(screenX, v.translateX), v.scale),
                         Div(sz.imageWidth, Num(2)))
           imageY == Add(Div(Sub(screenY, v.translateY), v.scale),
                         Div(sz.imageHeight, Num(2)))
       IN IF /\ AtMost(Num(0), imageX) /\ AtMost(imageX, sz.imageWidth)
             /\ AtMost(Num(0), imageY) /\ AtMost(imageY, sz.imageHeight)
          THEN [x |-> imageX, y |-> imageY]
          ELSE Null

\* The image sizes: one that fits the canvas, one twenty times as wide, and
\* a thumbnail.
Images ==
  { [imageWidth |-> Num(100), imageHeight |-> Num(50)],
    [imageWidth |-> Num(2000), imageHeight |-> Num(1000)],
    [imageWidth |-> Num(5), imageHeight |-> Num(4)] }

\* The positions clicked or pressed on the canvas.
Clicks == { [x |-> Num(50), y |-> Num(40)], [x |-> Num(5), y |-> Num(5)] }

\* distance / lastTouchDistance of a pinch, and its centre.
PinchRatios == { Rat(1, 2), Num(20) }

PinchCenter == [x |-> Num(20), y |-> Num(20)]

\* scheduleRender without the needsRender test and without the cancel.
ScheduleRender_everyCall ==
  /\ needsRender' = TRUE
  /\ animationFrameId' = animationFrameId + 1
  /\ frames' = frames \cup {animationFrameId + 1}

\* scheduleRender: nothing when a frame is scheduled; else the last handle
\* is cancelled and a new frame requested.
ScheduleRender ==
  IF needsRender
  THEN UNCHANGED <<needsRender, animationFrameId, frames>>
  ELSE /\ needsRender' = TRUE
       /\ animationFrameId' = animationFrameId + 1
       /\ frames' = (frames \ {animationFrameId}) \cup {animationFrameId + 1}

\* The handler runs on the mounted viewer, within the frames of the session.
Handles ==
  /\ screen = "viewer"
  /\ needsRender \/ animationFrameId < MaxFrames

\* What the canvas handlers leave alone.
aside == <<referencePoints, fit, transform, type, pixel, geo, back,
           calls, store, userPosition, alerts, loader, canvas, fittedFrom, db>>

\* The viewer is mounted and setupCanvas has sized the canvas; the image has
\* not loaded.
InitCanvas ==
  /\ referencePoints = Array(<<>>)
  /\ fit = NoCall
  /\ transform = Null
  /\ type = "null"
  /\ pixel = Null
  /\ geo = NoCall
  /\ back = NoCall
  /\ pc = "canvas"
  /\ calls = <<>>
  /\ store = <<>>
  /\ userPosition = Null
  /\ screen = "viewer"
  /\ alerts = <<>>
  /\ loader = Idle
  /\ needsRender = FALSE
  /\ canvas = <<>>
  /\ fittedFrom = <<>>
  /\ db = Null
  /\ reply = NoCall
  /\ view = [scale |-> Num(1), translateX |-> Num(0), translateY |-> Num(0)]
  /\ sizes = [imageWidth |-> Num(0), imageHeight |-> Num(0),
              canvasWidth |-> Num(100), canvasHeight |-> Num(80)]
  /\ pendingReferencePoint = Null
  /\ animationFrameId = 0
  /\ frames = {}
  /\ zooms = 0
  /\ dialog = NoDialog

\* imageElement.onload
ImageLoaded(image) ==
  /\ Handles
  /\ IsZero(sizes.imageWidth)
  /\ sizes' = [sizes EXCEPT !.imageWidth = image.imageWidth,
                            !.imageHeight = image.imageHeight]
  /\ view' = FitImageToCanvas(sizes')
  /\ ScheduleRender
  /\ UNCHANGED <<aside, pc, screen, reply, pendingReferencePoint, zooms,
                 dialog>>

\* handleWheel: deltaY > 0 zooms out.
HandleWheel(out) ==
  /\ Handles
  /\ zooms < MaxZooms
  /\ zooms' = zooms + 1
  /\ view' = [view EXCEPT
       !.scale = ClampScale(Mul(@, IF out THEN Dec(9, 1) ELSE Dec(11, 1)))]
  /\ ScheduleRender
  /\ UNCHANGED <<aside, pc, screen, reply, sizes, pendingReferencePoint,
                 dialog>>

\* handleTouchMove with two touches, the first after the touchstart that
\* took the view as touchStartTransform.
HandlePinch(ratio, center) ==
  /\ Handles
  /\ zooms < MaxZooms
  /\ zooms' = zooms + 1
  /\ LET clampedScale == ClampScale(Mul(view.scale, ratio))
         scaleChange == Div(clampedScale, view.scale)
     IN view' = [scale |-> clampedScale,
                 translateX |-> Sub(center.x, Mul(Sub(center.x, view.translateX),
                                                  scaleChange)),
                 translateY |-> Sub(center.y, Mul(Sub(center.y, view.translateY),
                                                  scaleChange))]
  /\ ScheduleRender
  /\ UNCHANGED <<aside, pc, screen, reply, sizes, pendingReferencePoint,
                 dialog>>

\* handleCanvasClick or a long touch at a screen position: handleLongPress.
HandleLongPress(at) ==
  /\ Handles
  /\ pc \in {"canvas", "pressed"}
  /\ LET imageCoords == ScreenToImage(view, sizes, at.x, at.y)
     IN IF imageCoords # Null
        THEN /\ pendingReferencePoint' =
                  [imageX |-> imageCoords.x, imageY |-> imageCoords.y,
                   screenX |-> at.x, screenY |-> at.y]
             /\ ScheduleRender
             /\ pc' = "pressed"
        ELSE UNCHANGED <<pendingReferencePoint, needsRender, animationFrameId,
                         frames, pc>>
  /\ UNCHANGED <<aside, screen, reply, view, sizes, zooms, dialog>>

\* The timeout of handleLongPress: showCoordinateSelection.  The calls of
\* getCurrentPosition still in flight were made for an earlier dialog.
ShowCoordinateSelection ==
  /\ screen = "viewer"
  /\ pc = "pressed"
  /\ pc' = "dialog"
  /\ dialog' = [dialog EXCEPT
       !.showingCoordinateSelection = TRUE,
       !.coordinateMethod = "null",
       !.selectedLon = Null,
       !.selectedLat = Null,
       !.fixes = IF @ = {} THEN {} ELSE {"earlier"},
       !.chosen = [lon |-> Null, lat |-> Null]]
  /\ UNCHANGED <<aside, screen, reply, view, sizes, pendingReferencePoint,
                 needsRender, animationFrameId, frames, zooms>>

\* saveReferencePoint with the coordinates chosen in the dialog, up to
\* hideCoordinateSelection.
SavePendingPoint(selected) ==
  /\ Handles
  /\ pc = "dialog"
  /\ pendingReferencePoint # Null
  /\ reply' = Settled("addReferencePoint",
                      [imageX |-> pendingReferencePoint.imageX,
                       imageY |-> pendingReferencePoint.imageY,
                       lon |-> selected.lon, lat |-> selected.lat],
                      Return(Undefined))
  /\ pendingReferencePoint' = Null
  /\ dialog' = [dialog EXCEPT !.showingCoordinateSelection = FALSE]
  /\ pc' = "canvas"
  /\ ScheduleRender
  /\ UNCHANGED <<aside, screen, view, sizes, zooms>>

\* hideCoordinateSelection, from the Cancel button of the dialog.
HideCoordinateSelection ==
  /\ Handles
  /\ pc = "dialog"
  /\ pendingReferencePoint' = Null
  /\ dialog' = [dialog EXCEPT !.showingCoordinateSelection = FALSE]
  /\ pc' = "canvas"
  /\ ScheduleRender
  /\ UNCHANGED <<aside, screen, reply, view, sizes, zooms>>

\* The animation frame callback: render.
RunFrame(handle) ==
  /\ screen = "viewer"
  /\ handle \in frames
  /\ frames' = frames \ {handle}
  /\ needsRender' = FALSE
  /\ UNCHANGED <<aside, pc, screen, reply, view, sizes, pendingReferencePoint,
                 animationFrameId, zooms, dialog>>

\* onDestroy: cancelAnimationFrame(animationFrameId).
OnDestroy ==
  /\ screen = "viewer"
  /\ screen' = "list"
  /\ frames' = frames \ {animationFrameId}
  /\ UNCHANGED <<aside, pc, reply, view, sizes, pendingReferencePoint,
                 needsRender, animationFrameId, zooms, dialog>>

NextCanvas ==
  \/ \E image \in Images : ImageLoaded(image)
  \/ \E out \in BOOLEAN : HandleWheel(out)
  \/ \E ratio \in PinchRatios : HandlePinch(ratio, PinchCenter)
  \/ \E at \in Clicks : HandleLongPress(at)
  \/ ShowCoordinateSelection
  \/ SavePendingPoint(Geo(Num(10), Num(20)))
  \/ HideCoordinateSelection
  \/ \E handle \in frames : RunFrame(handle)
  \/ OnDestroy

SpecCanvas == InitCanvas /\ [][NextCanvas]_vars

\* The browser runs a requested animation frame callback unless it is
\* cancelled.
SpecCanvasFair ==
  SpecCanvas /\ WF_vars(\E handle \in frames : RunFrame(handle))

\* -------------------------------------------------------------- dialogs
\* MapViewer.svelte on the dialog side: the coordinate dialog of a pending
\* point (GPS, manual entry, map pick, Save Point) and the edit dialog of a
\* stored point.  The store calls are recorded in reply; the reload that
\* follows a save is LoadMapData of the viewer harness.

EmptyString == [type |-> "string", value |-> ""]

\* v is a JavaScript number (NaN included).
IsNumber(v) == "k" \in DOMAIN v

\* parseFloat of the value of a number input: the number, and NaN for null
\* and for the empty string.
ParseFloat(v) == IF IsNumber(v) THEN v ELSE NaN

\* What a number input bound with bind:value holds: '' before it is
\* touched, null when emptied, else the number typed.
ManualLats == { Num(45), Num(95), Null, EmptyString }

ManualLons == { Num(8), Num(190) }

\* What the inputs of the edit dialog hold when Save is clicked.
EditedLats == { Num(45), Num(95), Null }

EditedLons == { Num(8) }

\* position.coords of a GPS fix, and e.lngLat of a click on the OSM map.
GpsFixes == { Geo(Num(12), Num(21)) }

MapClicks == { Geo(Num(9), Num(46)) }

\* A getCurrentPosition call in flight was made for the open dialog or for
\* an earlier one.
GpsCalls == { "open", "earlier" }

\* The stored point shown by the viewer.
HeldPoint ==
  [id |-> 1, mapId |-> 1, imageX |-> Num(4), imageY |-> Num(3),
   lon |-> Num(14), lat |-> Num(23), timestamp |-> 2]

\* canSavePoint, and the guard of saveReferencePoint.
CanSavePoint ==
  /\ pendingReferencePoint # Null
  /\ dialog.selectedLon # Null
  /\ dialog.selectedLat # Null

\* The Save Point button: saveReferencePoint with selectedLon, selectedLat.
SaveSelectedPoint ==
  /\ CanSavePoint
  /\ SavePendingPoint(Geo(dialog.selectedLon, dialog.selectedLat))

\* What the dialog handlers leave alone.
apart == <<aside, pc, screen, reply, view, sizes, pendingReferencePoint,
           needsRender, animationFrameId, frames, zooms>>

\* The viewer shows a 100 x 50 image with one stored point; no dialog is
\* open.
InitDialog ==
  /\ referencePoints = Array(<<HeldPoint>>)
  /\ fit = NoCall
  /\ transform = Null
  /\ type = "null"
  /\ pixel = Null
  /\ geo = NoCall
  /\ back = NoCall
  /\ pc = "canvas"
  /\ calls = <<>>
  /\ store = <<>>
  /\ userPosition = Null
  /\ screen = "viewer"
  /\ alerts = <<>>
  /\ loader = Idle
  /\ needsRender = FALSE
  /\ canvas = <<>>
  /\ fittedFrom = <<>>
  /\ db = Null
  /\ reply = Settled("getReferencePoints", 1, Return(Undefined))
  /\ sizes = [imageWidth |-> Num(100), imageHeight |-> Num(50),
              canvasWidth |-> Num(100), canvasHeight |-> Num(80)]
  /\ view = FitImageToCanvas(sizes)
  /\ pendingReferencePoint = Null
  /\ animationFrameId = 0
  /\ frames = {}
  /\ zooms = 0
  /\ dialog = NoDialog

\* selectCoordinateMethod, from a button of the method list; 'gps' calls
\* getCurrentGPS, which asks for one position.
SelectCoordinateMethod(method) ==
  /\ screen = "viewer"
  /\ dialog.showingCoordinateSelection
  /\ dialog.coordinateMethod = "null"
  /\ dialog' = [dialog EXCEPT
       !.coordinateMethod = method,
       !.fixes = IF method = "gps" THEN @ \cup {"open"} ELSE @]
  /\ UNCHANGED apart

\* The Choose Different Method button: coordinateMethod = null.
ChooseDifferentMethod ==
  /\ screen = "viewer"
  /\ dialog.showingCoordinateSelection
  /\ dialog.coordinateMethod # "null"
  /\ dialog' = [dialog EXCEPT !.coordinateMethod = "null"]
  /\ UNCHANGED apart

\* The success callback of getCurrentPosition.  The fix is a choice made in
\* the open dialog when the call was made for it and the user has not gone
\* on to manual entry or to the map.
PositionSuccess(call, position) ==
  /\ screen = "viewer"
  /\ call \in dialog.fixes
  /\ dialog' = [dialog EXCEPT
       !.fixes = @ \ {call},
       !.selectedLat = position.lat,
       !.selectedLon = position.lon,
       !.chosen = IF /\ dialog.showingCoordinateSelection
                     /\ call = "open"
                     /\ dialog.coordinateMethod \in {"gps", "null"}
                  THEN position ELSE @]
  /\ UNCHANGED apart

\* The error callback of getCurrentPosition: gpsError only.
PositionError(call) ==
  /\ screen = "viewer"
  /\ call \in dialog.fixes
  /\ dialog' = [dialog EXCEPT !.fixes = @ \ {call}]
  /\ UNCHANGED apart

\* useManualCoordinates on what the two inputs hold; a rejected entry
\* changes nothing (the alert is not recorded).
UseManualCoordinates(manualLat, manualLon) ==
  /\ screen = "viewer"
  /\ dialog.showingCoordinateSelection
  /\ dialog.coordinateMethod = "manual"
  /\ LET lat == ParseFloat(manualLat)
         lon == ParseFloat(manualLon)
     IN IF \/ lat.k = "nan" \/ lon.k = "nan"
           \/ Less(lat, Num(-90)) \/ Less(Num(90), lat)
           \/ Less(lon, Num(-180)) \/ Less(Num(180), lon)
        THEN UNCHANGED dialog
        ELSE dialog' = [dialog EXCEPT
               !.selectedLat = lat,
               !.selectedLon = lon,
               !.chosen = Geo(lon, lat)]
  /\ UNCHANGED apart

\* The click handler of the OSM map.
MapClick(lngLat) ==
  /\ screen = "viewer"
  /\ dialog.showingCoordinateSelection
  /\ dialog.coordinateMethod = "map"
  /\ dialog' = [dialog EXCEPT
       !.selectedLon = lngLat.lon,
       !.selectedLat = lngLat.lat,
       !.chosen = lngLat]
  /\ UNCHANGED apart

\* handlePointEditing on a click that hits the stored point.
HandlePointEditing(pointIndex) ==
  /\ Handles
  /\ pc = "canvas"
  /\ pointIndex + 1 \in DOMAIN referencePoints.items
  /\ dialog' = [dialog EXCEPT
       !.editingPoint = Spread(referencePoints.items[pointIndex + 1],
                               [index |-> pointIndex])]
  /\ ScheduleRender
  /\ UNCHANGED <<aside, pc, screen, reply, view, sizes, pendingReferencePoint,
                 zooms>>

\* saveEditedPoint on what the two inputs of the edit dialog hold, up to
\* editingPoint = null, and the scheduleRender after the reload.
SaveEditedInputs(lat, lon) ==
  /\ Handles
  /\ dialog.editingPoint # Null
  /\ reply' = Settled("updateReferencePoint",
                      [id |-> dialog.editingPoint.id, lon |-> lon, lat |-> lat],
                      Return(Undefined))
  /\ dialog' = [dialog EXCEPT !.editingPoint = Null]
  /\ ScheduleRender
  /\ UNCHANGED <<aside, pc, screen, view, sizes, pendingReferencePoint, zooms>>

\* cancelEdit
CancelEdit ==
  /\ Handles
  /\ dialog.editingPoint # Null
  /\ dialog' = [dialog EXCEPT !.editingPoint = Null]
  /\ ScheduleRender
  /\ UNCHANGED <<aside, pc, screen, reply, view, sizes, pendingReferencePoint,
                 zooms>>

NextDialog ==
  \/ \E at \in Clicks : HandleLongPress(at)
  \/ ShowCoordinateSelection
  \/ \E method \in {"gps", "manual", "map"} : SelectCoordinateMethod(method)
  \/ ChooseDifferentMethod
  \/ \E call \in GpsCalls, position \in GpsFixes :
       PositionSuccess(call, position)
  \/ \E call \in GpsCalls : PositionError(call)
  \/ \E manualLat \in ManualLats, manualLon \in ManualLons :
       UseManualCoordinates(manualLat, manualLon)
  \/ \E lngLat \in MapClicks : MapClick(lngLat)
  \/ SaveSelectedPoint
  \/ HideCoordinateSelection
  \/ HandlePointEditing(0)
  \/ \E lat \in EditedLats, lon \in EditedLons : SaveEditedInputs(lat, lon)
  \/ CancelEdit
  \/ \E handle \in frames : RunFrame(handle)

SpecDialog == InitDialog /\ [][NextDialog]_vars

\* -------------------------------------------------------------- claims

Points == referencePoints.items

Fitted == pc = "fitted"

CollinearError == "Points are collinear, cannot compute affine transform"

SingularError == "Transform is singular"

\* (q - p) x (r - p) in image space.
Cross(p, q, r) ==
  Sub(Mul(Sub(q.imageX, p.imageX), Sub(r.imageY, p.imageY)),
      Mul(Sub(q.imageY, p.imageY), Sub(r.imageX, p.imageX)))

\* All points of the list lie on one line in image space (or coincide).
Collinear(points) ==
  \A i, j, k \in DOMAIN points : IsZero(Cross(points[i], points[j], points[k]))

ScenarioB == <<Pt(0, 0, 10, 20), Pt(1, 0, 11, 20), Pt(0, 1, 10, 21)>>

\* The sums of r, x*r and y*r over the points, r = v - (cx*x + cy*y + c0).
ResidualSums(points, v, cx, cy, c0) ==
  LET I == DOMAIN points
      r == [i \in I |-> Sub(points[i][v],
                            Add(Add(Mul(cx, points[i].imageX),
                                    Mul(cy, points[i].imageY)), c0))]
  IN <<SumSeq(r),
       SumSeq([i \in I |-> Mul(points[i].imageX, r[i])]),
       SumSeq([i \in I |-> Mul(points[i].imageY, r[i])])>>

Zero3 == <<Num(0), Num(0), Num(0)>>

\* C1 as stated: calculateTransform returns null for a missing list and for
\* 0 or 1 points, a 'similarity' result for 2 points and an 'affine' result
\* for every list of 3 or more points.
C1_AsStated ==
  Fitted =>
    IF referencePoints.missing \/ Len(Points) < 2 THEN fit = Return(Null)
    ELSE IF Len(Points) = 2 THEN ~fit.threw /\ fit.value.type = "similarity"
    ELSE ~fit.threw /\ fit.value.type = "affine"

\* C1 amended: null for a missing list and for 0 or 1 points, a 'similarity'
\* result for 2 points, and for 3 or more points one of two outcomes decided
\* by the determinant test of the fit: the collinear-points error, which
\* points collinear in image space get when the determinant is computed
\* without rounding, and an 'affine' result otherwise.
C1_ModelSelection ==
  Fitted =>
    IF referencePoints.missing \/ Len(Points) < 2 THEN fit = Return(Null)
    ELSE IF Len(Points) = 2 THEN ~fit.threw /\ fit.value.type = "similarity"
    ELSE IF Collinear(Points) THEN fit.threw /\ fit.error = CollinearError
    ELSE ~fit.threw /\ fit.value.type = "affine"

\* C1 witness: calculateTransform has thrown on a list of 3 or more points.
C1_Witness == Fitted /\ ~referencePoints.missing /\ Len(Points) >= 3 /\ fit.threw

\* C2 as stated: for N >= 3 points not collinear in image space the returned
\* (a, b, c) satisfy the normal equations sum(r) = sum(x*r) = sum(y*r) = 0
\* with r = lon - (a*x + b*y + c), and (d, e, f) satisfy them for lat.
C2_NormalEquations ==
  (Fitted /\ Len(Points) >= 3 /\ ~Collinear(Points)) =>
    /\ ~fit.threw
    /\ LET m == fit.value.transform
       IN /\ ResidualSums(Points, "lon", m.a, m.b, m.c) = Zero3
          /\ ResidualSums(Points, "lat", m.d, m.e, m.f) = Zero3

\* C3 as stated: the model fitted from 3 points not collinear in image space
\* maps each of the three pixels to its own (lon, lat).
C3_ExactInterpolation ==
  (Fitted /\ Len(Points) = 3 /\ ~Collinear(Points)) =>
    /\ ~fit.threw
    /\ \A i \in 1..3 :
         imageToGeo(Points[i].imageX, Points[i].imageY, fit.value.transform, "affine")
           = Return(Geo(Points[i].lon, Points[i].lat))

\* C4 as stated: fitting (0,0)->(10,20), (1,0)->(11,20), (0,1)->(10,21) gives
\* a=1, b=0, c=10, d=0, e=1, f=20, and imageToGeo(5, 5) is then (15, 25).
C4_ScenarioB ==
  (Fitted /\ Points = ScenarioB) =>
    /\ ~fit.threw
    /\ fit.value.transform = [a |-> Num(1), b |-> Num(0), c |-> Num(10),
                              d |-> Num(0), e |-> Num(1), f |-> Num(20)]
    /\ imageToGeo(Num(5), Num(5), fit.value.transform, "affine")
         = Return(Geo(Num(15), Num(25)))

\* C5 as stated: computeAffineTransform fails with the collinear-points
\* error, and returns no model, whenever the N >= 3 points lie on one line in
\* image space (all pixels equal included), whatever their geographic
\* coordinates.  It holds where the determinant is computed without
\* rounding (Spec) and fails on the pixels of a large image (SpecLarge).
C5_CollinearRejected ==
  (Fitted /\ Len(Points) >= 3 /\ Collinear(Points)) =>
    fit = Throw(CollinearError)

\* C6 as stated: when the two points have the same image pixel the fit fails
\* with an error; it never returns a model with a NaN or infinite scale, tx
\* or ty.
C6_DegenerateSimilarity ==
  (Fitted /\ ~referencePoints.missing /\ Len(Points) = 2) =>
    /\ (Points[1].imageX = Points[2].imageX /\ Points[1].imageY = Points[2].imageY)
         => fit.threw
    /\ ~fit.threw =>
         /\ IsFinite(fit.value.transform.scale)
         /\ IsFinite(fit.value.transform.tx)
         /\ IsFinite(fit.value.transform.ty)

\* The determinant a*e - b*d of an affine model.
Det(m) == Sub(Mul(m.a, m.e), Mul(m.b, m.d))

\* |v| < 1e-10
BelowTolerance(v) == AbsLess(v, 10)

\* C7: for every affine model whose determinant is not within the singular
\* tolerance and every pixel P, geoToImage(imageToGeo(P, M), M) returns P.
C7_RoundTripAffine ==
  (pc = "inverse" /\ type = "affine" /\ ~BelowTolerance(Det(transform))) =>
    back = Return(pixel)

\* C7 witness: a round trip through an affine model with b, d # 0 and
\* non-integer coefficients has returned.
C7_Witness ==
  /\ pc = "inverse" /\ type = "affine" /\ ~back.threw
  /\ transform.b = Rat(2, 3) /\ transform.d = Rat(1, 3) /\ transform.c = Num(10)
  /\ pixel = Px(Rat(1, 2), Num(7))

C9_SingularAffineRejected ==
  (pc \in {"inverse", "direct"} /\ type = "affine" /\ BelowTolerance(Det(transform))) =>
    back = Throw(SingularError)

\* C9 witness: geoToImage has thrown on the model a=1, b=2, d=2, e=4.
C9_Witness ==
  /\ pc = "direct" /\ type = "affine" /\ back.threw
  /\ transform = ScenarioC.transform

\* C10 as stated: geoToImage with type 'similarity' throws the
\* singular-transform error when the model's scale is 0.
C10_ZeroScaleRejected ==
  (pc \in {"inverse", "direct"} /\ type = "similarity" /\ IsZero(transform.scale)) =>
    back = Throw(SingularError)

\* C11: the model computeSimilarityTransform returns for 2 points with
\* distinct image pixels maps each of the two pixels to its own (lon, lat).
C11_SimilarityInterpolation ==
  (pc = "mapped" /\ type = "similarity" /\ PixelOf(Points[1]) # PixelOf(Points[2])) =>
    \A i \in 1..2 :
      pixel = PixelOf(Points[i]) => geo = Return(Geo(Points[i].lon, Points[i].lat))

\* C11 witness: the second fit point of a pair that turns by a quarter turn
\* off the axes has been mapped.
C11_Witness ==
  /\ pc = "mapped" /\ type = "similarity" /\ ~geo.threw
  /\ SubSeq(Points, 1, 2) = <<Pt(0, 0, 10, 20), Pt(4, 3, 7, 24)>>
  /\ pixel = Px(Num(4), Num(3))

\* C12: fitting (0,0)->(lon 0, lat 0), (100,0)->(lon 0, lat 1) gives scale =
\* 0.01, rotation = pi/2 (scale*cos = 0, scale*sin = 0.01), tx = ty = 0, and
\* imageToGeo(50, 0) is then lon = 0, lat = 0.5.
C12_ScenarioA ==
  (pc = "fitted" /\ type = "similarity" /\ Points = ScenarioA) =>
    /\ fit = Return([scale |-> Dec(1, 2), rotation |-> Angle(1, 0),
                     tx |-> Num(0), ty |-> Num(0)])
    /\ Mul(fit.value.scale, Cos(fit.value.rotation)) = Num(0)
    /\ Mul(fit.value.scale, Sin(fit.value.rotation)) = Dec(1, 2)
    /\ imageToGeo(Num(50), Num(0), fit.value, "similarity")
         = Return(Geo(Num(0), Rat(1, 2)))

\* C12 witness: computeSimilarityTransform has returned on scenario A.
C12_Witness ==
  pc = "fitted" /\ type = "similarity" /\ Points = ScenarioA /\ ~fit.threw

\* C15: computeSimilarityTransform throws its insufficient-points error on
\* every list of fewer than 2 points and computeAffineTransform throws its
\* own on every list of fewer than 3 points; neither returns a model.
C15_InsufficientPoints ==
  /\ (pc = "fitted" /\ type = "similarity" /\ Len(Points) < 2) =>
       fit = Throw("Need at least 2 reference points")
  /\ (pc = "fitted" /\ type = "affine" /\ Len(Points) < 3) =>
       fit = Throw("Need at least 3 reference points for affine transform")

\* C15 witness: computeAffineTransform has thrown on a list of 2 points.
C15_Witness ==
  pc = "fitted" /\ type = "affine" /\ Len(Points) = 2 /\ fit.threw

\* The lists that are a reordering of points.
Reorderings(points) ==
  { [i \in DOMAIN points |-> points[f[i]]] : f \in Permutations(DOMAIN points) }

ForeignShape ==
  \/ type = "affine" /\ "scale" \in DOMAIN transform
  \/ type = "similarity" /\ "a" \in DOMAIN transform

\* C13 as stated: imageToGeo and geoToImage throw, and return no
\* coordinates, when the type tag does not match the shape of the model.
C13_ForeignShapeRejected ==
  ForeignShape =>
    /\ pc = "forward" => geo.threw
    /\ pc \in {"inverse", "direct"} => back.threw

UnknownTypeError == "Unknown transform type"

\* C14: imageToGeo and geoToImage throw the unknown-transform-type error,
\* and return no coordinates, for every type tag other than 'similarity'
\* and 'affine', null and undefined included.
C14_UnknownTypeRejected ==
  type \notin {"similarity", "affine"} =>
    /\ pc = "forward" => geo = Throw(UnknownTypeError)
    /\ pc \in {"inverse", "direct"} => back = Throw(UnknownTypeError)

\* C14 witness: both evaluators have thrown, imageToGeo on a tag that
\* differs from 'affine' in case only and geoToImage on undefined.
C14_Witness ==
  \/ pc = "forward" /\ type = "Affine" /\ geo.threw /\ "a" \in DOMAIN transform
  \/ pc = "direct" /\ type = "undefined" /\ back.threw

RenderEvaluates ==
  /\ needsRender /\ ~needsRender'
  /\ userPosition # Null /\ transform # Null

\* C18: once a reference point has been added, edited or deleted in the
\* store, no evaluation of geoToImage by render uses a geoTransform fitted
\* from the previous points: whenever render evaluates, the cached model is
\* the one fitted from the points now in the store.
C18_NoStaleEvaluation ==
  [][RenderEvaluates => fittedFrom = store]_vars

\* C19: when calculateTransform fails on the stored points because they are
\* collinear, the viewer stays on the map and reports no load failure.
C19_CollinearRecoverable ==
  (fit.threw /\ fit.error = CollinearError) =>
    (screen = "viewer" /\ alerts = <<>>)

Ids(list) == [n \in DOMAIN list |-> list[n].id]

\* The list without the point of the given id.
RECURSIVE Without(_, _)
Without(list, id) ==
  IF list = <<>> THEN <<>>
  ELSE (IF list[1].id = id THEN <<>> ELSE <<list[1]>>) \o Without(Tail(list), id)

\* What getReferencePoints(mapId) has resolved with: the stored points of
\* that map and no others, each once, by ascending id.
ListsTheMap ==
  (reply.fn = "getReferencePoints" /\ ~reply.outcome.threw) =>
    LET list == reply.outcome.value
    IN /\ { list[n] : n \in DOMAIN list }
            = { db.points[i] : i \in { j \in DOMAIN db.points :
                                         db.points[j].mapId = reply.at } }
       /\ \A n, m \in DOMAIN list : n < m => list[n].id < list[m].id

\* What a call does to the list of every map: a new point goes to the end
\* of the list of its map, an updated point keeps its place, and a deleted
\* point leaves the others in their order.
KeepsTheOrder ==
  \A m \in MapIds :
    LET before == IndexGetAll(db.points, m)
        after == IndexGetAll(db'.points, m)
    IN /\ (reply'.fn = "addReferencePoint") =>
            after = (IF reply'.at = m
                     THEN Append(before, db'.points[reply'.outcome.value])
                     ELSE before)
       /\ (reply'.fn = "updateReferencePoint") => Ids(after) = Ids(before)
       /\ (reply'.fn = "deleteReferencePoint") => after = Without(before, reply'.at)

\* C21: after any calls of addReferencePoint, updateReferencePoint and
\* deleteReferencePoint, getReferencePoints(mapId) returns exactly the stored
\* points of that map in insertion order, and updating a point does not
\* change its position.
C21_InsertionOrder == []ListsTheMap /\ [][KeepsTheOrder]_vars

\* C21 witness: the list of a map holds its first and third point, the
\* first one updated, while the second point added is stored for the other
\* map.
C21_Witness ==
  /\ reply.fn = "getReferencePoints" /\ ~reply.outcome.threw
  /\ Ids(reply.outcome.value) = <<1, 3>>
  /\ reply.outcome.value[1].lon = Num(10)
  /\ 2 \in DOMAIN db.points

\* The records of the first store are in the second, unchanged, but for
\* those the predicate leaves out.
Kept(before, after, keys) ==
  /\ DOMAIN after \subseteq DOMAIN before
  /\ \A i \in keys : i \in DOMAIN after /\ after[i] = before[i]

\* A step of deleteMap(mapId) whose transaction completes removes the map
\* and every point of it and nothing else; one whose transaction is aborted
\* removes nothing.
DeleteMapStep ==
  (reply'.fn = "deleteMap") =>
    IF reply'.outcome.threw
    THEN db' = db
    ELSE /\ reply'.at \notin DOMAIN db'.maps
         /\ \A i \in DOMAIN db'.points : db'.points[i].mapId # reply'.at
         /\ Kept(db.maps, db'.maps, DOMAIN db.maps \ {reply'.at})
         /\ Kept(db.points, db'.points,
                 { i \in DOMAIN db.points : db.points[i].mapId # reply'.at })

\* C22: after deleteMap(mapId) neither the map nor a point with that mapId
\* remains, every other map and the points of every other map are unchanged,
\* and a failed deleteMap leaves the map and its points in place.
C22_DeleteMapCascades == [][DeleteMapStep]_vars

\* C22 witness: deleteMap(1) has completed on a store in which three points
\* had been added, and a point of map 2 is still stored.
C22_Witness ==
  /\ reply = Settled("deleteMap", 1, Return(Undefined))
  /\ db.pointKey = 3
  /\ DOMAIN db.maps = {2}
  /\ \E i \in DOMAIN db.points : db.points[i].mapId = 2

\* A step of updateReferencePoint(pointId, updates): rejected with the
\* store unchanged when the id is not stored; else the fields of updates
\* are overwritten in that point and nothing else changes.
UpdateStep ==
  (reply'.fn = "updateReferencePoint") =>
    LET pointId == reply'.at.pointId
        updates == reply'.at.updates
    IN IF pointId \notin DOMAIN db.points
       THEN reply'.outcome = Throw("Point not found") /\ db' = db
       ELSE /\ ~reply'.outcome.threw
            /\ reply'.outcome.value = db'.points[pointId]
            /\ DOMAIN db'.points[pointId] = DOMAIN db.points[pointId]
            /\ \A f \in DOMAIN updates : db'.points[pointId][f] = updates[f]
            /\ \A f \in DOMAIN db.points[pointId] \ DOMAIN updates :
                 db'.points[pointId][f] = db.points[pointId][f]
            /\ \A f \in {"id", "mapId", "imageX", "imageY", "timestamp"} :
                 db'.points[pointId][f] = db.points[pointId][f]
            /\ DOMAIN db'.points = DOMAIN db.points
            /\ Kept(db.points, db'.points, DOMAIN db.points \ {pointId})
            /\ db'.maps = db.maps

\* C24: updateReferencePoint on an id that is not stored rejects with
\* 'Point not found' and leaves the store unchanged; on a stored id it
\* overwrites only the fields present in updates, leaves the point's id,
\* mapId, imageX, imageY and timestamp and every other point unchanged, and
\* resolves with the merged point.
C24_UpdateMerges == [][UpdateStep]_vars

\* C24 witness: the second of two stored points has been given a new lon
\* alone and keeps its lat.
C24_Witness ==
  /\ reply.fn = "updateReferencePoint" /\ ~reply.outcome.threw
  /\ reply.at = [pointId |-> 2, updates |-> [lon |-> Num(10)]]
  /\ db.points[2].lon = Num(10) /\ db.points[2].lat = Num(23)
  /\ 1 \in DOMAIN db.points

\* C27: whenever no load is in progress in the viewer, the cached model is
\* the fit of the points the viewer holds: null for fewer than 2 points,
\* 'similarity' for 2 and 'affine' for 3 or more.
C27_CacheMatchesPoints ==
  (Mounted /\ loader = Idle) =>
    LET n == Len(referencePoints.items)
    IN /\ fittedFrom = referencePoints.items
       /\ n < 2 => (transform = Null /\ type = "null")
       /\ n = 2 => type = "similarity"
       /\ n >= 3 => type = "affine"

\* (q - p) x (r - p) in geographic space.
GeoCross(p, q, r) ==
  Sub(Mul(Sub(q.lon, p.lon), Sub(r.lat, p.lat)),
      Mul(Sub(q.lat, p.lat), Sub(r.lon, p.lon)))

\* All points of the list lie on one line in geographic space (or coincide).
GeoCollinear(points) ==
  \A i, j, k \in DOMAIN points : IsZero(GeoCross(points[i], points[j], points[k]))

\* C29: for every affine model computeAffineTransform returns from points
\* that are collinear neither in image space nor in geographic space,
\* geoToImage returns a pixel and does not fail as singular, however small
\* the degrees per pixel of the map.
C29_FineScaleInvertible ==
  (pc = "located" /\ ~Collinear(Points) /\ ~GeoCollinear(Points)) =>
    ~back.threw

\* While the viewer is mounted at most one animation frame callback is
\* pending, and needsRender is true exactly while one is.
OneFramePending ==
  (screen = "viewer") =>
    /\ Cardinality(frames) <= 1
    /\ needsRender <=> frames # {}

\* C25: while the viewer is mounted at most one animation frame callback is
\* pending however many scheduleRender calls occur between frames,
\* needsRender is true exactly while one is pending, and every
\* scheduleRender call is eventually followed by a run of render.
C25_RenderCoalescing ==
  /\ []OneFramePending
  /\ needsRender ~> (~needsRender \/ screen # "viewer")

\* C25 witness: two wheel events have called scheduleRender and one
\* animation frame has been requested, which is pending.
C25_Witness ==
  /\ screen = "viewer"
  /\ zooms = 2
  /\ animationFrameId = 1
  /\ needsRender /\ frames = {1}

\* (x, y) lies in [0, imageWidth] x [0, imageHeight].
InImage(x, y) ==
  /\ AtMost(Num(0), x) /\ AtMost(x, sizes.imageWidth)
  /\ AtMost(Num(0), y) /\ AtMost(y, sizes.imageHeight)

\* C26: every reference point created in the viewer lies inside the image:
\* a pending point and a point handed to addReferencePoint have imageX in
\* [0, imageWidth] and imageY in [0, imageHeight], and no point is pending
\* and no coordinate dialog opens without one, nor before the image size is
\* known.
C26_PointsInsideImage ==
  /\ pendingReferencePoint # Null =>
       InImage(pendingReferencePoint.imageX, pendingReferencePoint.imageY)
  /\ reply # NoCall => InImage(reply.at.imageX, reply.at.imageY)
  /\ pc \in {"pressed", "dialog"} => pendingReferencePoint # Null
  /\ IsZero(sizes.imageWidth) => (pendingReferencePoint = Null /\ pc = "canvas")

\* C26 witness: a point placed left of the image centre on a zoomed view has
\* been handed to addReferencePoint.
C26_Witness ==
  /\ reply # NoCall
  /\ zooms > 0
  /\ Less(Num(0), reply.at.imageX)
  /\ Less(reply.at.imageX, Div(sizes.imageWidth, Num(2)))

\* C30: once the image has loaded, the view scale lies in [0.1, 10] in
\* every reachable state, across the fit to the canvas, wheel zoom and pinch
\* zoom.
C30_ScaleWithinLimits ==
  ~IsZero(sizes.imageWidth) =>
    (AtMost(MinScale, view.scale) /\ AtMost(view.scale, MaxScale))

\* lon is a number in [-180, 180] and lat a number in [-90, 90].
InRange(lon, lat) ==
  IF IsNumber(lon) /\ IsNumber(lat)
  THEN /\ AtMost(Num(-180), lon) /\ AtMost(lon, Num(180))
       /\ AtMost(Num(-90), lat) /\ AtMost(lat, Num(90))
  ELSE FALSE

\* C23: every reference point the viewer persists, added from the coordinate
\* dialog or edited through the edit dialog, has lon in [-180, 180] and lat
\* in [-90, 90].
C23_PersistedInRange ==
  reply.fn \in {"addReferencePoint", "updateReferencePoint"} =>
    InRange(reply.at.lon, reply.at.lat)

\* C28: while the coordinate dialog is open, selectedLon and selectedLat
\* are the coordinates the user last chose in that dialog (null when none
\* was chosen, so that saving is disabled), whatever GPS fix has arrived.
C28_SelectedIsChosen ==
  dialog.showingCoordinateSelection =>
    Geo(dialog.selectedLon, dialog.selectedLat) = dialog.chosen

====
